---- MODULE Spec2Model ----
(***************************************************************************)
(* A model of the schools.by scraping client (src/schools_api.py): the     *)
(* session lifecycle of a SchoolsAPI instance, the login sequence of       *)
(* SchoolsAPI.authenticate with its login-form and CSRF inference, the     *)
(* normalising request _make_request and the endpoint prober.              *)
(*                                                                         *)
(* Python strings are TLA+ strings; they are taken apart with Len, SubSeq  *)
(* and \o, so lower(), "in" and startswith() are computed character by     *)
(* character.  Python's None is the value None below.                      *)
(***************************************************************************)
EXTENDS Integers, Sequences, FiniteSets, TLC

VARIABLES
    site,           \* the server: the page it serves at /login
    session,        \* self.session: "none" (None), "open" or "closed" (an AsyncClient)
    cookies,        \* the cookie jar of the AsyncClient: the set of cookie names
    op,             \* the method of the client that is running, or "idle"
    pc,             \* its position: the await it is suspended at, or "done"
    args,           \* the arguments of the running call
    log,            \* the HTTP requests the running call has put on the wire, in order
    hops,           \* redirects the transport has followed for the current request
    login_status,   \* authenticate: login_response.status_code, 0 before it arrives
    login_html,     \* authenticate: the page the login GET ended on
    found,          \* authenticate: csrf_token, username_field, password_field, csrf_name
    form_data,      \* authenticate: the body given to the credential POST
    post_first,     \* the server's first answer to the credential POST (history)
    auth_response,  \* authenticate: the response session.post returned
    probe,          \* discover_endpoints: index of the endpoint being probed
    endpoints,      \* discover_endpoints: the three partitions
    result,         \* how the last call ended: a returned value or a raised exception
    leaked,         \* AsyncClients the instance opened, dropped and never closed
    outcomes,       \* what the requests of the running call ended in, in order (history)
    schools,        \* search_schools: the list the matches are appended to
    handlers,       \* the bot: per user, the handler that is running and its position
    jars,           \* the bot: the cookie jar of the session of the user's handler
    open_sessions,  \* the bot: AsyncClients opened and not closed
    user_sessions,  \* the bot: the dict self.user_sessions, keyed by user
    sent,           \* the bot: which cookies went out in whose requests (history)
    conversation,   \* the bot: per user, the state of the login ConversationHandler
    user_data       \* the bot: per user, context.user_data.get('username')

\* the state of the bot (src/bot.py)
botvars == <<handlers, jars, open_sessions, user_sessions, sent, conversation, user_data>>

\* the state of one SchoolsAPI instance used on its own
clientvars == <<site, session, cookies, op, pc, args, log, hops, login_status, login_html,
                found, form_data, post_first, auth_response, probe, endpoints, result,
                leaked, outcomes, schools>>

vars == <<clientvars, botvars>>

-----------------------------------------------------------------------------
(* Bounds of the model *)

\* the transport's max_redirects, scaled down (httpx follows up to 20)
MaxRedirects == 1
\* the longest first form of a login page, in inputs
MaxInputs == 4
\* how many entries of test_endpoints the prober walks
NumProbes == 2
\* the most inputs and scripts of a page of the CSRF-discovery cases
MaxCsrfInputs == 2
MaxScripts == 2
\* how many dropped AsyncClients of one instance the model counts
MaxLeaked == 1
\* the anchors of the longest page of the search cases
MaxAnchors == 16

-----------------------------------------------------------------------------
(* Python strings *)

None == "<None>"

Truthy(s) == s # None /\ s # ""

\* x.get(key, default)
Get(v, default) == IF v = None THEN default ELSE v

\* f"{v}"
Str(v) == IF v = None THEN "None" ELSE v

\* the upper-case letters and what lower() makes of them
Uppercase ==
    [c \in {"A", "B", "C", "D", "E", "F", "G", "H", "I", "J", "K", "L", "M",
            "N", "O", "P", "Q", "R", "S", "T", "U", "V", "W", "X", "Y", "Z"} |->
        CASE c = "A" -> "a" [] c = "B" -> "b" [] c = "C" -> "c" [] c = "D" -> "d"
          [] c = "E" -> "e" [] c = "F" -> "f" [] c = "G" -> "g" [] c = "H" -> "h"
          [] c = "I" -> "i" [] c = "J" -> "j" [] c = "K" -> "k" [] c = "L" -> "l"
          [] c = "M" -> "m" [] c = "N" -> "n" [] c = "O" -> "o" [] c = "P" -> "p"
          [] c = "Q" -> "q" [] c = "R" -> "r" [] c = "S" -> "s" [] c = "T" -> "t"
          [] c = "U" -> "u" [] c = "V" -> "v" [] c = "W" -> "w" [] c = "X" -> "x"
          [] c = "Y" -> "y" [] c = "Z" -> "z"]

LowerChar(c) == IF c \in DOMAIN Uppercase THEN Uppercase[c] ELSE c

\* s.lower(): s itself when no letter of it is upper-case
RECURSIVE LowerFrom(_, _)
LowerFrom(s, i) ==
    IF i > Len(s) THEN ""
    ELSE LowerChar(SubSeq(s, i, i)) \o LowerFrom(s, i + 1)

Lower(s) ==
    IF \A i \in 1..Len(s) : SubSeq(s, i, i) \notin DOMAIN Uppercase THEN s
    ELSE LowerFrom(s, 1)

\* sub in s
Contains(s, sub) ==
    \E i \in 1..(Len(s) - Len(sub) + 1) : SubSeq(s, i, i + Len(sub) - 1) = sub

StartsWith(s, prefix) ==
    Len(s) >= Len(prefix) /\ SubSeq(s, 1, Len(prefix)) = prefix

\* s[i-1:j], for any indices
Slice(s, i, j) ==
    LET hi == IF j > Len(s) THEN Len(s) ELSE j
    IN IF i < 1 \/ i > hi THEN "" ELSE SubSeq(s, i, hi)

\* a slice that keeps the whole of s
Untruncated(s, n) == s

\* s[:n]
Truncate(s, n) == IF Len(s) <= n THEN s ELSE SubSeq(s, 1, n)

\* a dict: d[k] = v
EmptyDict == [k \in {} |-> ""]

Put(d, k, v) == [x \in (DOMAIN d) \cup {k} |-> IF x = k THEN v ELSE d[x]]

-----------------------------------------------------------------------------
(* Exceptions and results *)

NoResult == [kind |-> "none"]

Raise(exc, msg) == [kind |-> "raise", exc |-> exc, msg |-> msg]

Return(v) == [kind |-> "return", value |-> v]

base_url == "https://schools.by"

\* urljoin(self.base_url, endpoint), for the endpoints the client builds
_build_url(endpoint) ==
    IF StartsWith(endpoint, "http") THEN endpoint
    ELSE IF endpoint = "" THEN base_url
    ELSE IF StartsWith(endpoint, "/") THEN base_url \o endpoint
    ELSE base_url \o "/" \o endpoint

-----------------------------------------------------------------------------
(* The regular expressions of get_csrf_token, matched as re.search matches   *)
(* them (leftmost match, re.IGNORECASE).  Every quantifier of the two        *)
(* patterns is followed by a character it cannot itself match, so the greedy *)
(* choice is the only one and no backtracking is modelled.                   *)

CharAt(s, i) == IF i >= 1 /\ i <= Len(s) THEN SubSeq(s, i, i) ELSE ""

Quotes == {"\"", "'"}

\* [a-zA-Z0-9\-_]
TokenChar(c) ==
    LowerChar(c) \in {"a", "b", "c", "d", "e", "f", "g", "h", "i", "j", "k", "l", "m",
                      "n", "o", "p", "q", "r", "s", "t", "u", "v", "w", "x", "y", "z",
                      "0", "1", "2", "3", "4", "5", "6", "7", "8", "9", "-", "_"}

\* \s*
RECURSIVE SkipSpaces(_, _)
SkipSpaces(s, i) ==
    IF CharAt(s, i) \in {" ", "\t"} THEN SkipSpaces(s, i + 1) ELSE i

\* [a-zA-Z0-9\-_]+ : the index after the run that starts at i
RECURSIVE RunEnd(_, _)
RunEnd(s, i) == IF TokenChar(CharAt(s, i)) /\ CharAt(s, i) # "" THEN RunEnd(s, i + 1) ELSE i

\* ["\']?\s*[:=]\s*["\']([a-zA-Z0-9\-_]+)["\'] from index j: group(1), or None
MatchAssignment(s, j) ==
    LET j1 == IF CharAt(s, j) \in Quotes THEN j + 1 ELSE j
        j2 == SkipSpaces(s, j1)
        j3 == SkipSpaces(s, j2 + 1)
        j4 == RunEnd(s, j3 + 1)
    IN IF /\ CharAt(s, j2) \in {":", "="}
          /\ CharAt(s, j3) \in Quotes
          /\ j4 > j3 + 1
          /\ CharAt(s, j4) \in Quotes
       THEN SubSeq(s, j3 + 1, j4 - 1)
       ELSE None

\* csrf[_\-]?token... at index i
MatchCsrfTokenAt(s, i) ==
    LET k == IF CharAt(s, i + 4) \in {"_", "-"} THEN i + 5 ELSE i + 4
    IN IF Lower(Slice(s, i, i + 3)) = "csrf" /\ Lower(Slice(s, k, k + 4)) = "token"
       THEN MatchAssignment(s, k + 5)
       ELSE None

\* _token... at index i
MatchTokenAt(s, i) ==
    IF Lower(Slice(s, i, i + 5)) = "_token" THEN MatchAssignment(s, i + 6) ELSE None

\* re.search(pattern, content, re.IGNORECASE): group(1) of the leftmost match
RECURSIVE SearchFrom(_, _, _)
SearchFrom(pattern, s, i) ==
    IF i > Len(s) THEN None
    ELSE LET m == IF pattern = 1 THEN MatchCsrfTokenAt(s, i) ELSE MatchTokenAt(s, i)
         IN IF m # None THEN m ELSE SearchFrom(pattern, s, i + 1)

re_search(pattern, s) == SearchFrom(pattern, s, 1)

-----------------------------------------------------------------------------
(* Parsed markup.  A page is what BeautifulSoup(html, 'html.parser') finds  *)
(* in it: whether there is a <form>, the action and the <input>s of the     *)
(* first form in document order, the <input>s after that form, the first    *)
(* <meta name="csrf-token"> and the <script>s.  An attribute that is not    *)
(* written in the markup is None.                                           *)

Input(name, type, value) ==
    [tag |-> "input", name |-> name, type |-> type, value |-> value, content |-> None]

Meta(content) ==
    [tag |-> "meta", name |-> "csrf-token", type |-> None, value |-> None,
     content |-> content]

\* the None that soup.find returns
NoElement ==
    [tag |-> None, name |-> None, type |-> None, value |-> None, content |-> None]

Page(form, action, inputs, outside, meta, scripts) ==
    [form |-> form, action |-> action, inputs |-> inputs, outside |-> outside,
     meta |-> meta, scripts |-> scripts]

\* soup.find('input', {'name': name}): the first input of the document with that name
RECURSIVE FindByName(_, _)
FindByName(inputs, name) ==
    IF inputs = <<>> THEN NoElement
    ELSE IF Head(inputs).name = name THEN Head(inputs)
    ELSE FindByName(Tail(inputs), name)

\* csrf_input.get('value') or csrf_input.get('content')
TokenOf(el) == IF Truthy(el.value) THEN el.value ELSE el.content

\* the loop over csrf_inputs: the first element found that carries a token
RECURSIVE FirstToken(_)
FirstToken(csrf_inputs) ==
    IF csrf_inputs = <<>> THEN None
    ELSE LET csrf_input == Head(csrf_inputs)
         IN IF csrf_input # NoElement /\ Truthy(TokenOf(csrf_input))
            THEN TokenOf(csrf_input)
            ELSE FirstToken(Tail(csrf_inputs))

\* the loop over the scripts: script.string is None for a script without text
RECURSIVE ScriptToken(_)
ScriptToken(scripts) ==
    IF scripts = <<>> THEN None
    ELSE LET content == Head(scripts)
             m1 == re_search(1, content)
             m2 == re_search(2, content)
         IN IF /\ Truthy(content)
               /\ (Contains(Lower(content), "csrf") \/ Contains(Lower(content), "token"))
               /\ (m1 # None \/ m2 # None)
            THEN (IF m1 # None THEN m1 ELSE m2)
            ELSE ScriptToken(Tail(scripts))

MetaBeforeTokenInput(doc, meta) ==
    <<FindByName(doc, "csrfmiddlewaretoken"), meta,
      FindByName(doc, "_token"), FindByName(doc, "csrf_token")>>

CsrfInputs(doc, meta) ==
    <<FindByName(doc, "csrfmiddlewaretoken"), FindByName(doc, "_token"),
      FindByName(doc, "csrf_token"), meta>>

get_csrf_token(html) ==
    LET token == FirstToken(CsrfInputs(html.inputs \o html.outside, html.meta))
    IN IF token # None THEN token ELSE ScriptToken(html.scripts)

-----------------------------------------------------------------------------
(* Steps 3 to 5 of authenticate: the fields of the first form *)

possible_username_names == {"username", "login", "email", "user", "login_name"}

possible_password_names == {"password", "pass", "pwd"}

csrf_names == {"csrfmiddlewaretoken", "_token", "csrf_token"}

\* form.find_all('input', {'type': 'hidden'})
HiddenInputs(inputs) == SelectSeq(inputs, LAMBDA inp : inp.type = "hidden")

\* the loop that copies the named hidden inputs into form_data
RECURSIVE CopyHidden(_, _)
CopyHidden(hidden_inputs, data) ==
    IF hidden_inputs = <<>> THEN data
    ELSE LET name == Head(hidden_inputs).name
             value == Get(Head(hidden_inputs).value, "")
         IN CopyHidden(Tail(hidden_inputs),
                       IF Truthy(name) THEN Put(data, name, value) ELSE data)

UsernameCandidate(inp) ==
    \/ Lower(Get(inp.name, "")) \in possible_username_names
    \/ Lower(Get(inp.type, "")) = "email"

PasswordCandidate(inp) ==
    \/ Lower(Get(inp.name, "")) \in possible_password_names
    \/ Lower(Get(inp.type, "")) = "password"

\* a scan without the "not yet found" guards: the last candidate wins
RECURSIVE ScanFieldsLastWins(_, _, _)
ScanFieldsLastWins(input_fields, username_field, password_field) ==
    IF input_fields = <<>>
    THEN [username_field |-> username_field, password_field |-> password_field]
    ELSE LET inp == Head(input_fields)
         IN IF UsernameCandidate(inp)
            THEN ScanFieldsLastWins(Tail(input_fields), inp.name, password_field)
            ELSE IF PasswordCandidate(inp)
            THEN ScanFieldsLastWins(Tail(input_fields), username_field, inp.name)
            ELSE ScanFieldsLastWins(Tail(input_fields), username_field, password_field)

\* a scan that stops looking once it has a username, whatever the password
RECURSIVE ScanFieldsNoPassword(_, _, _)
ScanFieldsNoPassword(input_fields, username_field, password_field) ==
    IF input_fields = <<>>
    THEN [username_field |-> username_field, password_field |-> password_field]
    ELSE LET inp == Head(input_fields)
         IN IF ~Truthy(username_field) /\ UsernameCandidate(inp)
            THEN ScanFieldsNoPassword(Tail(input_fields), inp.name, password_field)
            ELSE IF ~Truthy(password_field)
            THEN ScanFieldsNoPassword(Tail(input_fields), username_field, inp.name)
            ELSE ScanFieldsNoPassword(Tail(input_fields), username_field, password_field)

\* the loop over input_fields, from username_field and password_field as they stand
RECURSIVE ScanFields(_, _, _)
ScanFields(input_fields, username_field, password_field) ==
    IF input_fields = <<>>
    THEN [username_field |-> username_field, password_field |-> password_field]
    ELSE LET inp == Head(input_fields)
         IN IF ~Truthy(username_field) /\ UsernameCandidate(inp)
            THEN ScanFields(Tail(input_fields), inp.name, password_field)
            ELSE IF ~Truthy(password_field) /\ PasswordCandidate(inp)
            THEN ScanFields(Tail(input_fields), username_field, inp.name)
            ELSE ScanFields(Tail(input_fields), username_field, password_field)

FindLoginFields(inputs) == ScanFields(inputs, None, None)

\* the loop over hidden_inputs that picks csrf_name: the first hit, then break
RECURSIVE CsrfName(_)
CsrfName(hidden_inputs) ==
    IF hidden_inputs = <<>> THEN None
    ELSE IF Head(hidden_inputs).name \in csrf_names THEN Head(hidden_inputs).name
    ELSE CsrfName(Tail(hidden_inputs))

\* a form_data in which the hidden fields are copied last, over the credentials
HiddenFieldsLast(hidden_inputs, seen, username, password) ==
    LET d1 == Put(EmptyDict, seen.username_field, username)
        d2 == Put(d1, seen.password_field, password)
        d3 == IF Truthy(seen.csrf_token) /\ Truthy(seen.csrf_name)
              THEN Put(d2, seen.csrf_name, seen.csrf_token)
              ELSE d2
    IN CopyHidden(hidden_inputs, d3)

\* form_data as authenticate builds it: hidden fields, credentials, CSRF token;
\* seen holds csrf_token, username_field, password_field and csrf_name
BuildFormData(hidden_inputs, seen, username, password) ==
    LET d0 == CopyHidden(hidden_inputs, EmptyDict)
        d1 == Put(d0, seen.username_field, username)
        d2 == Put(d1, seen.password_field, password)
    IN IF Truthy(seen.csrf_token) /\ Truthy(seen.csrf_name)
       THEN Put(d2, seen.csrf_name, seen.csrf_token)
       ELSE d2

MissingFieldsMessage(fields) ==
    "Cannot find login fields. Found: username=" \o Str(fields.username_field)
        \o ", password=" \o Str(fields.password_field)

\* form.get('action', '/login'), resolved unless it starts with http
FormAction(html) ==
    LET form_action == Get(html.action, "/login")
    IN IF StartsWith(form_action, "http") THEN form_action ELSE _build_url(form_action)

-----------------------------------------------------------------------------
(* Step 7 of authenticate: the outcome read off the response of the POST *)

Element(tag, class, text) == [tag |-> tag, class |-> class, text |-> text]

\* s.strip()
RECURSIVE Strip(_)
Strip(s) ==
    IF Len(s) > 0 /\ SubSeq(s, 1, 1) = " " THEN Strip(SubSeq(s, 2, Len(s)))
    ELSE IF Len(s) > 0 /\ SubSeq(s, Len(s), Len(s)) = " " THEN Strip(SubSeq(s, 1, Len(s) - 1))
    ELSE s

\* ' '.join(texts)
RECURSIVE Join(_)
Join(texts) ==
    IF texts = <<>> THEN ""
    ELSE IF Len(texts) = 1 THEN Head(texts)
    ELSE Head(texts) \o " " \o Join(Tail(texts))

\* class_=lambda x: x and ('error' in x.lower() or 'alert' in x.lower())
ErrorClass(class) ==
    Truthy(class) /\ (Contains(Lower(class), "error") \/ Contains(Lower(class), "alert"))

ErrorTags == {"div", "span", "p"}

\* a scan that takes the class of any element, whatever its tag
AnyTagErrorElements(elements) ==
    SelectSeq(elements, LAMBDA elem : ErrorClass(elem.class))

\* soup_result.find_all(['div', 'span', 'p'], class_=...)
ErrorElements(elements) ==
    SelectSeq(elements, LAMBDA elem : elem.tag \in ErrorTags /\ ErrorClass(elem.class))

RECURSIVE Texts(_)
Texts(elements) ==
    IF elements = <<>> THEN <<>> ELSE <<Strip(Head(elements).text)>> \o Texts(Tail(elements))

\* the redirect branch: status 302, 303 or 307
ClassifyRedirect(response, jar) ==
    LET location == Get(response.location, "")
    IN IF ~Contains(Lower(location), "/login")
       THEN [success |-> TRUE, message |-> "Authentication successful (redirected)",
             status |-> response.status, redirect |-> location, cookies |-> jar]
       ELSE [success |-> FALSE,
             error |-> "Authentication failed (redirected back to login)",
             status |-> response.status]

\* the branches on auth_response.status_code; jar is dict(self.session.cookies)
ClassifyAuthResponse(response, jar) ==
    IF response.status = 200
    THEN LET error_elements == ErrorElements(response.elements)
         IN IF error_elements # <<>>
            THEN [success |-> FALSE,
                  error |-> "Authentication failed: " \o Join(Texts(error_elements)),
                  status |-> response.status]
            ELSE [success |-> TRUE, message |-> "Authentication successful",
                  status |-> response.status, cookies |-> jar]
    ELSE IF response.status \in {302, 303, 307}
    THEN ClassifyRedirect(response, jar)
    ELSE [success |-> FALSE,
          error |-> "Authentication failed: HTTP " \o ToString(response.status),
          status |-> response.status,
          response |-> Truncate(response.text, 500)]

-----------------------------------------------------------------------------
(* The transport: httpx.AsyncClient(follow_redirects=True, cookies=Cookies()) *)

\* a response: its status, its Location and Set-Cookie headers, and its body as
\* the client reads it (the text, and what BeautifulSoup finds in it)
FullResponse(status, location, set_cookie, content_type, page, elements, text, scripts) ==
    [status |-> status, location |-> location, set_cookie |-> set_cookie,
     content_type |-> content_type, page |-> page, elements |-> elements,
     text |-> text, scripts |-> scripts]

Response(status, location, set_cookie, page, elements, text) ==
    FullResponse(status, location, set_cookie, "text/html", page, elements, text, <<>>)

NoPage == Page(FALSE, None, <<>>, <<>>, NoElement, <<>>)

NoResponse == Response(0, None, None, NoPage, <<>>, "")

Request(method, url, data, hop) ==
    [method |-> method, url |-> url, data |-> data, hop |-> hop]

\* a response the client follows: a redirect status with a Location header
IsRedirect(response) ==
    response.status \in {301, 302, 303, 307, 308} /\ response.location # None

\* a redirect that is followed with the method of the request it answers
KeepsMethod(method, status) == method

\* the method of the request that follows a redirect
RedirectMethod(method, status) ==
    IF status \in {302, 303} \/ (status = 301 /\ method = "POST") THEN "GET" ELSE method

StoreCookie(jar, response) ==
    IF response.set_cookie = None THEN jar ELSE jar \cup {response.set_cookie}

Last(seq) == seq[Len(seq)]

Outcome(kind, response, exc, msg) ==
    [kind |-> kind, response |-> response, exc |-> exc, msg |-> msg]

\* how an awaited request can end once no further redirect is followed: the
\* response handed to the caller, or a transport error (httpx.RequestError)
FinalOutcomes(responses) ==
    {Outcome("response", r, None, "") : r \in {x \in responses : ~IsRedirect(x)}}
    \cup {Outcome("error", NoResponse, "TooManyRedirects",
                  "Exceeded maximum allowed redirects.") :
              r \in {x \in responses : IsRedirect(x) /\ hops = MaxRedirects}}
    \cup {Outcome("error", NoResponse, "ConnectError", "All connection attempts failed"),
          Outcome("error", NoResponse, "ReadTimeout", "")}

\* what self.session.<method>(...) raises before anything is sent
SessionUnusable == session # "open"

SessionError ==
    IF session = "none"
    THEN Raise("AttributeError", "'NoneType' object has no attribute 'get'")
    ELSE Raise("RuntimeError", "Cannot send a request, as the client has been closed.")

-----------------------------------------------------------------------------
(* What the server may answer *)

RootResponses ==
    {Response(200, None, "sid", NoPage, <<>>, "<html>"),
     Response(200, None, None, NoPage, <<>>, "<html>"),
     Response(302, "/ru/", None, NoPage, <<>>, ""),
     Response(503, None, None, NoPage, <<>>, "down")}

PlainLoginForm ==
    <<Input("csrfmiddlewaretoken", "hidden", "B"), Input("username", "text", None),
      Input("password", "password", None)>>

LoginPages ==
    {Page(TRUE, "/login", PlainLoginForm, <<>>, NoElement, <<>>),
     Page(TRUE, None, <<Input("mail", "email", None), Input("secret", "password", None)>>,
          <<>>, Meta("M"), <<>>),
     Page(TRUE, "/login", <<Input("uname", "text", None), Input("pwd", "password", None)>>,
          <<>>, NoElement, <<>>),
     Page(TRUE, "/login", <<Input("login", "text", None),
                            Input("remember", "checkbox", "1")>>, <<>>, NoElement, <<>>),
     Page(FALSE, None, <<>>, <<>>, NoElement, <<>>)}

\* the answer that carries the login page of the site
LoginPageResponse == Response(200, None, None, site, <<>>, "<form>")

LoginResponses ==
    {LoginPageResponse}
    \cup {Response(404, None, None, NoPage, <<>>, "not found"),
          Response(403, None, None, Page(TRUE, "/login", PlainLoginForm, <<>>, NoElement,
                                         <<>>), <<>>, "<form>"),
          Response(302, "/accounts/login", None, NoPage, <<>>, "")}

ElementLists ==
    {<<>>,
     <<Element("div", "alert alert-danger", " Wrong password ")>>,
     <<Element("li", "errorlist", "Wrong password")>>,
     <<Element("p", "Form-Error", "Bad login"), Element("span", "hint", "x"),
       Element("span", "ALERT", "Try again")>>,
     <<Element("div", "content", "Welcome"), Element("div", None, "")>>}

\* the body of an error page, 510 characters
ErrorPage ==
    LET ten == "<p>err</p>"
        hundred == ten \o ten \o ten \o ten \o ten \o ten \o ten \o ten \o ten \o ten
    IN hundred \o hundred \o hundred \o hundred \o hundred \o ten

PostResponses ==
    {Response(200, None, c, NoPage, e, "<html>") : c \in {None, "auth"}, e \in ElementLists}
    \cup {Response(st, loc, None, NoPage, <<>>, "") :
              st \in {302, 303, 307},
              loc \in {None, "/dashboard", "/login?error=1", "/LOGIN"}}
    \cup {Response(403, None, None, NoPage, <<>>, "Forbidden"),
          Response(500, None, None, NoPage, <<>>, "Server Error"),
          Response(502, None, None, NoPage, <<>>, ErrorPage),
          Response(301, None, None, NoPage, <<>>, "Moved")}

-----------------------------------------------------------------------------
(* State *)

NoFound ==
    [csrf_token |-> None, username_field |-> None, password_field |-> None,
     csrf_name |-> None]

NoEndpoints == [working |-> <<>>, failing |-> <<>>, redirects |-> <<>>]

Usernames == {"alice"}

Passwords == {"pw"}

\* the users of the bot
Users == {"u1", "u2"}

\* no handler of the user runs; left tells how its last handler left its
\* async with block, "none" if it entered none
Ended(left) == [op |-> "idle", pc |-> "done", left |-> left]

NoHandler == Ended("none")

\* SchoolsBot.__init__: no handler runs, user_sessions = {}
InitBot ==
    /\ handlers = [u \in Users |-> NoHandler]
    /\ jars = [u \in Users |-> {}]
    /\ open_sessions = 0
    /\ user_sessions = EmptyDict
    /\ sent = {}
    /\ conversation = [u \in Users |-> "END"]
    /\ user_data = [u \in Users |-> None]

\* SchoolsAPI.__init__
Init ==
    /\ leaked = 0
    /\ outcomes = <<>>
    /\ schools = <<>>
    /\ InitBot
    /\ site \in LoginPages
    /\ session = "none"
    /\ cookies = {}
    /\ op = "idle"
    /\ pc = "done"
    /\ args = [was |-> "none"]
    /\ log = <<>>
    /\ hops = 0
    /\ login_status = 0
    /\ login_html = NoPage
    /\ found = NoFound
    /\ form_data = EmptyDict
    /\ post_first = NoResponse
    /\ auth_response = NoResponse
    /\ probe = 0
    /\ endpoints = NoEndpoints
    /\ result = NoResult

\* no call of the instance is running
Idle == pc = "done"

\* what every call resets when it starts
BeginCall(name, a) ==
    /\ Idle
    /\ UNCHANGED site
    /\ op' = name
    /\ args' = a
    /\ hops' = 0
    /\ login_status' = 0
    /\ login_html' = NoPage
    /\ found' = NoFound
    /\ form_data' = EmptyDict
    /\ post_first' = NoResponse
    /\ auth_response' = NoResponse
    /\ outcomes' = <<>>
    /\ schools' = <<>>
    /\ UNCHANGED botvars

Begin(name, a) ==
    /\ BeginCall(name, a)
    /\ probe' = 0
    /\ endpoints' = NoEndpoints

-----------------------------------------------------------------------------
(* The session lifecycle *)

\* async with SchoolsAPI() as api: a new AsyncClient with an empty cookie jar
Enter ==
    /\ Begin("__aenter__", [was |-> session])
    /\ session = "open" => leaked < MaxLeaked
    /\ leaked' = IF session = "open" THEN leaked + 1 ELSE leaked
    /\ session' = "open"
    /\ cookies' = {}
    /\ log' = <<>>
    /\ pc' = "done"
    /\ result' = Return("self")

\* the session after __aexit__: aclose() of the client, if there is one; the
\* attribute keeps the closed client
SessionAfterExit == IF session = "none" THEN "none" ELSE "closed"

Exit ==
    /\ Begin("__aexit__", [was |-> session])
    /\ UNCHANGED leaked
    /\ session' = SessionAfterExit
    /\ cookies' = cookies
    /\ log' = <<>>
    /\ pc' = "done"
    /\ result' = Return(None)

-----------------------------------------------------------------------------
(* authenticate *)

\* a handler that catches its own kind only and lets every other exception through
WrapOwnKindOnly(e) ==
    [kind |-> "raise",
     exc |-> e.exc,
     msg |-> IF e.exc = "SchoolsAPIError" THEN "Authentication failed: " \o e.msg
             ELSE e.msg,
     cause |-> e]

\* except Exception as e: raise SchoolsAPIError(f"Authentication failed: {str(e)}")
Wrap(e) ==
    [kind |-> "raise", exc |-> "SchoolsAPIError",
     msg |-> "Authentication failed: " \o e.msg, cause |-> e]

AuthFails(e) ==
    /\ result' = Wrap(e)
    /\ pc' = "done"

\* the call, up to the await of the GET of the site root
Authenticate(username, password) ==
    /\ Begin("authenticate", [username |-> username, password |-> password])
    /\ UNCHANGED <<session, cookies, leaked>>
    /\ IF SessionUnusable
       THEN /\ AuthFails(SessionError)
            /\ log' = <<>>
       ELSE /\ log' = <<Request("GET", _build_url("/"), EmptyDict, 0)>>
            /\ pc' = "root"
            /\ result' = NoResult

\* the transport follows a redirect of the request the call is waiting for
FollowRedirect(responses) ==
    \E r \in responses :
        /\ IsRedirect(r)
        /\ hops < MaxRedirects
        /\ hops' = hops + 1
        /\ cookies' = StoreCookie(cookies, r)
        /\ log' = Append(log, Request(RedirectMethod(Last(log).method, r.status),
                                      _build_url(r.location), 
                                      IF RedirectMethod(Last(log).method, r.status) = "GET"
                                      THEN EmptyDict ELSE Last(log).data,
                                      hops + 1))
        /\ post_first' = IF pc = "post" /\ hops = 0 THEN r ELSE post_first
        /\ UNCHANGED <<site, session, op, pc, args, login_status, login_html, found, form_data,
                       auth_response, probe, endpoints, result>>
        /\ UNCHANGED <<leaked, outcomes, schools, botvars>>

AuthRootRedirect == op = "authenticate" /\ pc = "root" /\ FollowRedirect(RootResponses)

\* main_response arrives and is dropped; the GET of the login page is sent
AuthRootResponse ==
    /\ op = "authenticate" /\ pc = "root"
    /\ \E o \in FinalOutcomes(RootResponses) :
          IF o.kind = "error"
          THEN /\ AuthFails(Raise(o.exc, o.msg))
               /\ UNCHANGED <<cookies, log, hops>>
          ELSE /\ cookies' = StoreCookie(cookies, o.response)
               /\ log' = Append(log, Request("GET", _build_url("/login"), EmptyDict, 0))
               /\ hops' = 0
               /\ pc' = "login"
               /\ UNCHANGED result
    /\ UNCHANGED <<site, session, op, args, login_status, login_html, found, form_data, post_first,
                   auth_response, probe, endpoints>>
    /\ UNCHANGED <<leaked, outcomes, schools, botvars>>

\* a check that lets every status below 500 through
CannotAccessServerErrorsOnly(response) == response.status >= 500

\* if login_response.status_code != 200
CannotAccess(response) == response.status # 200

AuthLoginRedirect ==
    op = "authenticate" /\ pc = "login" /\ FollowRedirect(LoginResponses)

\* steps 2 to 6: login_response arrives, the form is read, the POST is sent
AuthLoginStep(o) ==
    /\ op = "authenticate" /\ pc = "login"
    /\    LET html == o.response.page
              fields == FindLoginFields(html.inputs)
              seen == [csrf_token |-> get_csrf_token(html),
                       username_field |-> fields.username_field,
                       password_field |-> fields.password_field,
                       csrf_name |-> CsrfName(HiddenInputs(html.inputs))]
              data == BuildFormData(HiddenInputs(html.inputs), seen, args.username,
                                    args.password)
          IN IF o.kind = "error"
             THEN /\ AuthFails(Raise(o.exc, o.msg))
                  /\ UNCHANGED <<cookies, log, hops, login_status, login_html, found,
                                 form_data>>
             ELSE IF CannotAccess(o.response)
             THEN /\ AuthFails(Raise("SchoolsAPIError",
                                     "Cannot access login page: HTTP "
                                         \o ToString(o.response.status)))
                  /\ cookies' = StoreCookie(cookies, o.response)
                  /\ login_status' = o.response.status
                  /\ UNCHANGED <<log, hops, login_html, found, form_data>>
             ELSE IF ~html.form
             THEN /\ AuthFails(Raise("SchoolsAPIError", "Login form not found on the page"))
                  /\ cookies' = StoreCookie(cookies, o.response)
                  /\ login_status' = o.response.status
                  /\ login_html' = html
                  /\ UNCHANGED <<log, hops, found, form_data>>
             ELSE IF ~Truthy(seen.username_field) \/ ~Truthy(seen.password_field)
             THEN /\ AuthFails(Raise("SchoolsAPIError", MissingFieldsMessage(fields)))
                  /\ cookies' = StoreCookie(cookies, o.response)
                  /\ login_status' = o.response.status
                  /\ login_html' = html
                  /\ found' = seen
                  /\ UNCHANGED <<log, hops, form_data>>
             ELSE /\ cookies' = StoreCookie(cookies, o.response)
                  /\ login_status' = o.response.status
                  /\ login_html' = html
                  /\ found' = seen
                  /\ form_data' = data
                  /\ log' = Append(log, Request("POST", FormAction(html), data, 0))
                  /\ hops' = 0
                  /\ pc' = "post"
                  /\ UNCHANGED result
    /\ UNCHANGED <<site, session, op, args, post_first, auth_response, probe, endpoints>>
    /\ UNCHANGED <<leaked, outcomes, schools, botvars>>

AuthLoginResponse == \E o \in FinalOutcomes(LoginResponses) : AuthLoginStep(o)

\* the login GET is answered with the login page of the site
AuthLoginPage == AuthLoginStep(Outcome("response", LoginPageResponse, None, ""))

AuthPostRedirect == op = "authenticate" /\ pc = "post" /\ FollowRedirect(PostResponses)

\* step 7: auth_response arrives and the outcome is returned
AuthPostResponse ==
    /\ op = "authenticate" /\ pc = "post"
    /\ \E o \in FinalOutcomes(PostResponses) :
          IF o.kind = "error"
          THEN /\ AuthFails(Raise(o.exc, o.msg))
               /\ UNCHANGED <<cookies, auth_response, post_first>>
          ELSE /\ cookies' = StoreCookie(cookies, o.response)
               /\ auth_response' = o.response
               /\ post_first' = IF hops = 0 THEN o.response ELSE post_first
               /\ result' = Return(ClassifyAuthResponse(o.response, cookies'))
               /\ pc' = "done"
    /\ UNCHANGED <<site, session, op, args, log, hops, login_status, login_html, found, form_data, probe,
                   endpoints>>
    /\ UNCHANGED <<leaked, outcomes, schools, botvars>>

-----------------------------------------------------------------------------
(* _make_request and _extract_json_from_html *)

\* s.find(c) and s.rfind(c), counted from 1; 0 when c is not in s
RECURSIVE FindFrom(_, _, _)
FindFrom(s, c, i) ==
    IF i > Len(s) THEN 0
    ELSE IF SubSeq(s, i, i) = c THEN i
    ELSE FindFrom(s, c, i + 1)

RECURSIVE RFindFrom(_, _, _)
RFindFrom(s, c, i) ==
    IF i < 1 THEN 0
    ELSE IF SubSeq(s, i, i) = c THEN i
    ELSE RFindFrom(s, c, i - 1)

\* s.split('\n')
RECURSIVE SplitLines(_)
SplitLines(s) ==
    LET n == FindFrom(s, "\n", 1)
    IN IF n = 0 THEN <<s>>
       ELSE <<Slice(s, 1, n - 1)>> \o SplitLines(Slice(s, n + 1, Len(s)))

\* json.loads / response.json() on the texts of the model: the value, or the
\* JSONDecodeError
JsonLoads(text) ==
    CASE text = "{\"a\": 1}" -> [ok |-> TRUE, value |-> [a |-> 1]]
      [] text = "{\"html\": \"x\"}" -> [ok |-> TRUE, value |-> [html |-> "x"]]
      [] text = "{}" -> [ok |-> TRUE, value |-> EmptyDict]
      [] OTHER -> [ok |-> FALSE, value |-> EmptyDict]

\* a scan that gives up at the first candidate that does not parse
RECURSIVE ScanLinesFirstCandidate(_)
ScanLinesFirstCandidate(lines) ==
    IF lines = <<>> THEN [ok |-> FALSE, value |-> EmptyDict]
    ELSE LET line == Head(lines)
             start == FindFrom(line, "{", 1)
             end == RFindFrom(line, "}", Len(line))
         IN IF /\ (Contains(Lower(line), "data") \/ Contains(Lower(line), "config"))
               /\ start # 0 /\ end # 0
            THEN JsonLoads(Slice(line, start, end))
            ELSE ScanLinesFirstCandidate(Tail(lines))

\* the scan of the lines of one script: the first candidate that parses
RECURSIVE ScanLines(_)
ScanLines(lines) ==
    IF lines = <<>> THEN [ok |-> FALSE, value |-> EmptyDict]
    ELSE LET line == Head(lines)
             start == FindFrom(line, "{", 1)
             end == RFindFrom(line, "}", Len(line))
             parsed == JsonLoads(Slice(line, start, end))
         IN IF /\ (Contains(Lower(line), "data") \/ Contains(Lower(line), "config"))
               /\ start # 0 /\ end # 0
               /\ parsed.ok
            THEN parsed
            ELSE ScanLines(Tail(lines))

\* the loop over the scripts of the page; the fallback is {"html": html}
RECURSIVE ExtractFromScripts(_, _)
ExtractFromScripts(scripts, html) ==
    IF scripts = <<>> THEN [html |-> html]
    ELSE LET content == Strip(Get(Head(scripts), ""))
             hit == ScanLines(SplitLines(content))
         IN IF /\ Truthy(Head(scripts))
               /\ (Contains(content, "window.") \/ Contains(content, "var "))
               /\ hit.ok
            THEN hit.value
            ELSE ExtractFromScripts(Tail(scripts), html)

_extract_json_from_html(response) == ExtractFromScripts(response.scripts, response.text)

\* a handler of transport errors that raises whatever allow_errors says
TransportFailureRaises(e, allow_errors) ==
    Raise("SchoolsAPIError", "Request failed: " \o e.msg)

\* except httpx.RequestError as e
TransportFailure(e, allow_errors) ==
    IF allow_errors
    THEN Return([error |-> e.msg, client_error |-> TRUE])
    ELSE Raise("SchoolsAPIError", "Request failed: " \o e.msg)

\* a test that takes no error page for a diagnostic page
NoDiagnosticPage(response) == FALSE

\* response.status_code == 500 and 'html' in content_type
DiagnosticPage(response) ==
    response.status = 500 /\ Contains(response.content_type, "html")

\* an excerpt that is the whole text
WholeText(s, n) == s

\* text[:200]
Excerpt(s, n) == Truncate(s, n)

\* the envelope _make_request returns for a response, or the exception it raises
Envelope(response, allow_errors, url) ==
    IF response.status = 200
    THEN IF Contains(response.content_type, "application/json")
         THEN IF JsonLoads(response.text).ok
              THEN Return(JsonLoads(response.text).value)
              ELSE Raise("JSONDecodeError", "Expecting value: line 1 column 1 (char 0)")
         ELSE LET json_data == _extract_json_from_html(response)
              IN IF DOMAIN json_data # {} /\ "html" \notin DOMAIN json_data
                 THEN Return(json_data)
                 ELSE Return([html |-> response.text, status |-> response.status])
    ELSE IF allow_errors
    THEN Return([html |-> response.text, status |-> response.status, error |-> TRUE,
                 url |-> url])
    ELSE IF DiagnosticPage(response)
    THEN Return([html |-> response.text, status |-> response.status, error |-> TRUE])
    ELSE Raise("SchoolsAPIError",
               "HTTP " \o ToString(response.status) \o ": "
                   \o Excerpt(response.text, 200) \o "...")

ApiResponse(status, location, content_type, text, scripts) ==
    FullResponse(status, location, None, content_type, NoPage, <<>>, text, scripts)

\* a body of 210 characters
LongBody ==
    LET ten == "0123456789"
        fifty == ten \o ten \o ten \o ten \o ten
    IN fifty \o fifty \o fifty \o fifty \o ten

ApiResponses ==
    {ApiResponse(200, None, "application/json", "{\"a\": 1}", <<>>),
     ApiResponse(200, None, "application/json", "<html>", <<>>),
     ApiResponse(200, None, "text/html", "<script>", <<"var config = {\"a\": 1};">>),
     ApiResponse(200, None, "text/html", "<p>", <<"var x = 5;">>),
     ApiResponse(404, None, "text/html", "not found", <<>>),
     ApiResponse(500, None, "text/html", "error", <<>>),
     ApiResponse(302, "/login", "text/html", "", <<>>),
     ApiResponse(200, None, "text/html", "<page>", <<"var config = {\"html\": \"x\"};">>),
     ApiResponse(200, None, "text/html", "<empty>", <<"var data = {};">>),
     ApiResponse(500, None, "application/json", "{\"detail\": \"down\"}", <<>>),
     ApiResponse(503, None, "text/html", LongBody, <<>>),
     ApiResponse(302, None, "text/html", "moved", <<>>),
     ApiResponse(200, None, "application/json", "{\"html\": \"x\"}", <<>>)}

ApiEndpoints == {"/schedule"}

\* the call, up to the await of self.session.request
MakeRequest(method, endpoint, allow_errors) ==
    /\ Begin("_make_request", [method |-> method, endpoint |-> endpoint,
                               allow_errors |-> allow_errors])
    /\ UNCHANGED <<session, cookies, leaked>>
    /\ IF session = "none"
       THEN /\ result' = Raise("SchoolsAPIError",
                               "Session not initialized. Use async context manager.")
            /\ log' = <<>>
            /\ pc' = "done"
       ELSE IF session = "closed"
       THEN /\ result' = SessionError
            /\ log' = <<>>
            /\ pc' = "done"
       ELSE /\ log' = <<Request(method, _build_url(endpoint), EmptyDict, 0)>>
            /\ pc' = "request"
            /\ result' = NoResult

MakeRequestRedirect == op = "_make_request" /\ pc = "request" /\ FollowRedirect(ApiResponses)

\* the awaited request ends in o: the envelope is returned, or an error raised
MakeRequestStep(o) ==
    /\ op = "_make_request" /\ pc = "request"
    /\ outcomes' = <<o>>
    /\ IF o.kind = "error"
       THEN /\ result' = TransportFailure(o, args.allow_errors)
            /\ UNCHANGED cookies
       ELSE /\ result' = Envelope(o.response, args.allow_errors, Last(log).url)
            /\ cookies' = StoreCookie(cookies, o.response)
    /\ pc' = "done"
    /\ UNCHANGED <<site, session, op, args, log, hops, login_status, login_html, found, form_data, post_first,
                   auth_response, probe, endpoints>>
    /\ UNCHANGED <<leaked, schools, botvars>>

MakeRequestResponse == \E o \in FinalOutcomes(ApiResponses) : MakeRequestStep(o)

\* the request is answered 200 with a markup page that has the scripts of the site
MakeRequestPage ==
    MakeRequestStep(Outcome("response",
                            ApiResponse(200, None, "text/html", "<page>", site.scripts),
                            None, ""))

-----------------------------------------------------------------------------
(* discover_endpoints: session.get(url, follow_redirects=False) per endpoint *)

all_test_endpoints ==
    <<"/", "/login", "/registration", "/help", "/about", "/capabilities", "/cost",
      "/contact", "/news", "/subdomains", "/api", "/mobile", "/app">>

\* the endpoints the model walks: the first NumProbes of the list
test_endpoints == SubSeq(all_test_endpoints, 1, NumProbes)

ProbeResponses ==
    {ApiResponse(200, None, "text/html", "ok", <<>>),
     ApiResponse(301, "/new", "text/html", "", <<>>),
     ApiResponse(307, None, "text/html", "", <<>>),
     ApiResponse(304, None, "text/html", "", <<>>),
     ApiResponse(404, None, "text/html", "not found", <<>>)}

ProbeOutcomes ==
    {Outcome("response", r, None, "") : r \in ProbeResponses}
    \cup {Outcome("error", NoResponse, "ConnectError", "All connection attempts failed")}

\* a classification that forgets the endpoints whose probe raised
ClassifiedDropsErrors(parts, endpoint, o) ==
    IF o.kind = "error" THEN parts
    ELSE IF o.response.status = 200
    THEN [parts EXCEPT !.working =
              Append(@, [endpoint |-> endpoint, status |-> o.response.status,
                         content_type |-> o.response.content_type])]
    ELSE [parts EXCEPT !.failing =
              Append(@, [endpoint |-> endpoint, status |-> o.response.status])]

\* the three branches on response.status_code, and the except branch
Classified(parts, endpoint, o) ==
    IF o.kind = "error"
    THEN [parts EXCEPT !.failing = Append(@, [endpoint |-> endpoint, error |-> o.msg])]
    ELSE IF o.response.status = 200
    THEN [parts EXCEPT !.working =
              Append(@, [endpoint |-> endpoint, status |-> o.response.status,
                         content_type |-> o.response.content_type])]
    ELSE IF o.response.status \in {301, 302, 303, 307, 308}
    THEN [parts EXCEPT !.redirects =
              Append(@, [endpoint |-> endpoint, status |-> o.response.status,
                         location |-> Get(o.response.location, "")])]
    ELSE [parts EXCEPT !.failing =
              Append(@, [endpoint |-> endpoint, status |-> o.response.status])]

\* every probe of a session that cannot send fails in the except branch
RECURSIVE AllFailing(_, _)
AllFailing(eps, e) ==
    IF eps = <<>> THEN <<>>
    ELSE <<[endpoint |-> Head(eps), error |-> e.msg]>> \o AllFailing(Tail(eps), e)

\* the call, up to the await of the first probe
DiscoverEndpoints ==
    /\ BeginCall("discover_endpoints", [was |-> session])
    /\ UNCHANGED <<session, cookies, leaked>>
    /\ IF SessionUnusable
       THEN /\ endpoints' = [NoEndpoints EXCEPT
                                !.failing = AllFailing(test_endpoints, SessionError)]
            /\ probe' = Len(test_endpoints)
            /\ log' = <<>>
            /\ result' = Return(endpoints')
            /\ pc' = "done"
       ELSE /\ endpoints' = NoEndpoints
            /\ probe' = 1
            /\ log' = <<Request("GET", _build_url(test_endpoints[1]), EmptyDict, 0)>>
            /\ result' = NoResult
            /\ pc' = "probe"

\* one response (or transport error) is classified; the next probe is sent, or
\* the partitions are returned
DiscoverResponse ==
    /\ op = "discover_endpoints" /\ pc = "probe"
    /\ \E o \in ProbeOutcomes :
          /\ outcomes' = Append(outcomes, o)
          /\ endpoints' = Classified(endpoints, test_endpoints[probe], o)
          /\ cookies' = IF o.kind = "error" THEN cookies ELSE StoreCookie(cookies, o.response)
    /\ IF probe < Len(test_endpoints)
       THEN /\ probe' = probe + 1
            /\ log' = Append(log, Request("GET", _build_url(test_endpoints[probe + 1]),
                                          EmptyDict, 0))
            /\ UNCHANGED <<pc, result>>
       ELSE /\ pc' = "done"
            /\ result' = Return(endpoints')
            /\ UNCHANGED <<probe, log>>
    /\ UNCHANGED <<site, session, op, args, hops, login_status, login_html, found, form_data, post_first,
                   auth_response>>
    /\ UNCHANGED <<leaked, schools, botvars>>

-----------------------------------------------------------------------------
(* The client used through its public methods, one call at a time *)

Next ==
    \/ Enter
    \/ Exit
    \/ \E u \in Usernames, p \in Passwords : Authenticate(u, p)
    \/ AuthRootRedirect
    \/ AuthRootResponse
    \/ AuthLoginRedirect
    \/ AuthLoginResponse
    \/ AuthPostRedirect
    \/ AuthPostResponse
    \/ \E e \in ApiEndpoints, a \in BOOLEAN : MakeRequest("GET", e, a)
    \/ MakeRequestRedirect
    \/ MakeRequestResponse
    \/ DiscoverEndpoints
    \/ DiscoverResponse

Spec == Init /\ [][Next]_vars

-----------------------------------------------------------------------------
(* The login sequence over every login page of a bounded shape *)

BoundedSeq(S, n) == UNION {[1..k -> S] : k \in 0..n}

InputPool ==
    {Input("Login", "text", None),
     Input("mail", "email", ""),
     Input("uname", "text", None),
     Input("secret", "password", None),
     Input("Login", "password", None),
     Input("_token", "hidden", "A"),
     Input("csrfmiddlewaretoken", "hidden", "B"),
     Input("email", "hidden", "h"),
     Input(None, "email", None)}

FormPages ==
    {Page(TRUE, None, inputs, <<>>, NoElement, <<>>) :
         inputs \in BoundedSeq(InputPool, MaxInputs)}

\* an open session whose authenticate call waits for the login page
InitLogin(pages) ==
    /\ leaked = 0
    /\ outcomes = <<>>
    /\ schools = <<>>
    /\ InitBot
    /\ site \in pages
    /\ session = "open"
    /\ cookies = {}
    /\ op = "authenticate"
    /\ pc = "login"
    /\ args \in {[username |-> u, password |-> p] : u \in Usernames, p \in Passwords}
    /\ log = <<Request("GET", _build_url("/"), EmptyDict, 0),
               Request("GET", _build_url("/login"), EmptyDict, 0)>>
    /\ hops = 0
    /\ login_status = 0
    /\ login_html = NoPage
    /\ found = NoFound
    /\ form_data = EmptyDict
    /\ post_first = NoResponse
    /\ auth_response = NoResponse
    /\ probe = 0
    /\ endpoints = NoEndpoints
    /\ result = NoResult

NextForm == AuthLoginPage

SpecForm == InitLogin(FormPages) /\ [][NextForm]_vars

CsrfPool ==
    {Input("_token", "hidden", "A"),
     Input("_token", "hidden", ""),
     Input("csrfmiddlewaretoken", "hidden", "B"),
     Input("csrf_token", "text", "C")}

MetaPool == {NoElement, Meta("M"), Meta("")}

ScriptPool ==
    {"var csrf_token = 'S1';",
     "window._token = \"S2\";",
     "var x = 5;",
     None}

CsrfPages ==
    {Page(TRUE, None, inputs, outside, meta, scripts) :
         inputs \in BoundedSeq(CsrfPool, MaxCsrfInputs),
         outside \in {<<>>, <<Input("csrfmiddlewaretoken", "hidden", "O")>>},
         meta \in MetaPool,
         scripts \in BoundedSeq(ScriptPool, MaxScripts)}

NextCsrf == AuthLoginPage

SpecCsrf == InitLogin(CsrfPages) /\ [][NextCsrf]_vars

-----------------------------------------------------------------------------
(* _make_request over every page of a bounded number of script blocks *)

\* script.string of a script block; None for a block without text of its own
ExtractScriptPool ==
    {"var config = {\"a\": 1};",
     "var x = 5;",
     "var data = {bad};\nvar config = {\"a\": 1};",
     "const config = {\"a\": 1};",
     "window.DATA = {\"html\": \"x\"};",
     "var config = } {;",
     "var cfg = {\"a\": 1};",
     "  var data = {};",
     None}

ScriptPages ==
    {Page(FALSE, None, <<>>, <<>>, NoElement, scripts) :
         scripts \in BoundedSeq(ExtractScriptPool, MaxScripts)}

\* an open session whose _make_request call waits for its response
InitExtract ==
    /\ leaked = 0
    /\ outcomes = <<>>
    /\ schools = <<>>
    /\ InitBot
    /\ site \in ScriptPages
    /\ session = "open"
    /\ cookies = {}
    /\ op = "_make_request"
    /\ pc = "request"
    /\ args \in {[method |-> "GET", endpoint |-> e, allow_errors |-> a] :
                     e \in ApiEndpoints, a \in BOOLEAN}
    /\ log = <<Request("GET", _build_url(args.endpoint), EmptyDict, 0)>>
    /\ hops = 0
    /\ login_status = 0
    /\ login_html = NoPage
    /\ found = NoFound
    /\ form_data = EmptyDict
    /\ post_first = NoResponse
    /\ auth_response = NoResponse
    /\ probe = 0
    /\ endpoints = NoEndpoints
    /\ result = NoResult

NextExtract == MakeRequestPage

SpecExtract == InitExtract /\ [][NextExtract]_vars

-----------------------------------------------------------------------------
(* search_schools and the page scan of get_subdomains_page *)

Anchor(href, text) == [href |-> href, text |-> text]

\* soup.find_all('a', href=True) on the bodies of the model, in document order
FindAnchors(html) ==
    CASE html = "<main>" ->
             <<Anchor("http://sch1.schools.by", "Minsk School 1"),
               Anchor("/subdomains/2", "Minsk Gymnasium 2"),
               Anchor("http://sch1.schools.by", " MINSK school one "),
               Anchor("http://other.by/x", "Minsk other"),
               Anchor("http://sch5.schools.by", "Brest School"),
               Anchor("http://sch6.schools.by", "Min")>>
      [] html = "<subs>" ->
             <<Anchor("http://sch3.schools.by", "Minsk School 3"),
               Anchor("http://sch1.schools.by", "Minsk School 1"),
               Anchor("https://schools.by/help", "Minsk help"),
               Anchor("http://other.by/x", "Minsk other")>>
      [] html = "<many>" ->
             [i \in 1..MaxAnchors |->
                  Anchor("http://m" \o ToString(i) \o ".schools.by",
                         "Minsk No " \o ToString(i))]
      [] OTHER -> <<>>

\* the test of a link of the main page, and the entry appended for it
MainPageMatch(a, query) ==
    /\ \/ Contains(a.href, ".schools.by") /\ Contains(a.href, "http")
       \/ StartsWith(a.href, "/subdomains")
    /\ Truthy(Strip(a.text)) /\ Len(Strip(a.text)) > 3
    /\ Contains(Lower(Strip(a.text)), Lower(query))

MainPageEntry(a) == [name |-> Strip(a.text), url |-> a.href, type |-> "main_page_link"]

\* the test of a link in get_subdomains_page, and the entry appended for it
SubdomainMatch(a) ==
    /\ Contains(a.href, ".schools.by") \/ Contains(a.href, "schools.by/")
    /\ Truthy(Strip(a.text)) /\ Len(Strip(a.text)) > 3

SubdomainEntry(a) == [name |-> Strip(a.text), url |-> a.href, type |-> "subdomain"]

\* the test of a link of one of the test pages, and the entry appended for it
TestPageMatch(a, query) ==
    /\ Contains(a.href, ".schools.by") \/ StartsWith(a.href, "http")
    /\ Truthy(Strip(a.text))
    /\ Contains(Lower(Strip(a.text)), Lower(query)) /\ Len(Strip(a.text)) > 3

TestPageEntry(a, page) ==
    [name |-> Strip(a.text), url |-> a.href, type |-> "from_" \o page, source |-> page]

\* the entries appended for the links of the main page, in document order
MainPageSchools(anchors, query) ==
    LET kept == SelectSeq(anchors, LAMBDA a : MainPageMatch(a, query))
    IN [i \in 1..Len(kept) |-> MainPageEntry(kept[i])]

\* the entries get_subdomains_page appends for the links of its page
SubdomainLinks(anchors) ==
    LET kept == SelectSeq(anchors, SubdomainMatch)
    IN [i \in 1..Len(kept) |-> SubdomainEntry(kept[i])]

\* the entries appended for the links of a test page
TestPageSchools(anchors, query, page) ==
    LET kept == SelectSeq(anchors, LAMBDA a : TestPageMatch(a, query))
    IN [i \in 1..Len(kept) |-> TestPageEntry(kept[i], page)]

\* the envelope of a request made without allow_errors
StrictEnvelope(o, url) ==
    IF o.kind = "error" THEN TransportFailure(o, FALSE) ELSE Envelope(o.response, FALSE, url)

\* what _make_request(..., allow_errors=True) gives for the outcome of its request
AllowedEnvelope(o, url) ==
    IF o.kind = "error" THEN TransportFailure(o, TRUE) ELSE Envelope(o.response, TRUE, url)

\* the anchors of the page of an envelope that has the key 'html'
AnchorsOf(envelope) ==
    IF "html" \in DOMAIN envelope.value THEN FindAnchors(envelope.value.html) ELSE <<>>

\* get_subdomains_page, from the end of its request: [] if that raised
SubdomainSchools(envelope) ==
    IF envelope.kind = "raise" THEN <<>>
    ELSE SubdomainLinks(AnchorsOf(envelope))

\* a list that is returned as it is
KeepsDuplicates(list, seen_urls) == list

\* the loop that drops the entries whose url was seen before
RECURSIVE UniqueSchools(_, _)
UniqueSchools(list, seen_urls) ==
    IF list = <<>> THEN <<>>
    ELSE IF Head(list).url \in seen_urls THEN UniqueSchools(Tail(list), seen_urls)
    ELSE <<Head(list)>> \o UniqueSchools(Tail(list), seen_urls \cup {Head(list).url})

\* unique_schools[:15]
LimitSchools(list) == SubSeq(list, 1, IF Len(list) < 15 THEN Len(list) ELSE 15)

test_pages == <<"/capabilities", "/help", "/about">>

PageIndex(page) == CHOOSE i \in DOMAIN test_pages : test_pages[i] = page

Queries == {"Minsk"}

SearchResponses ==
    {ApiResponse(200, None, "text/html", "<main>", <<>>),
     ApiResponse(200, None, "text/html", "<many>", <<>>),
     ApiResponse(404, None, "text/html", "<subs>", <<>>),
     ApiResponse(200, None, "application/json", "<html>", <<>>),
     ApiResponse(200, None, "application/json", "{\"a\": 1}", <<>>)}

SearchOutcomes ==
    {Outcome("response", r, None, "") : r \in SearchResponses}
    \cup {Outcome("error", NoResponse, "ConnectError", "All connection attempts failed")}

\* the call, up to the await of the request of the main page; a session that
\* cannot send makes _make_request raise, and the except branch returns schools
SearchSchools(query) ==
    /\ Begin("search_schools", [query |-> query])
    /\ UNCHANGED <<session, cookies, leaked>>
    /\ IF SessionUnusable
       THEN /\ log' = <<>>
            /\ result' = Return(<<>>)
            /\ pc' = "done"
       ELSE /\ log' = <<Request("GET", _build_url("/"), EmptyDict, 0)>>
            /\ result' = NoResult
            /\ pc' = "main"

\* one request of the call ends in o
SearchReceives(o) ==
    /\ outcomes' = Append(outcomes, o)
    /\ cookies' = IF o.kind = "error" THEN cookies ELSE StoreCookie(cookies, o.response)
    /\ UNCHANGED <<site, session, op, args, hops, login_status, login_html, found, form_data,
                   post_first, auth_response, probe, endpoints, leaked, botvars>>

\* step 1: the main page; an exception of _make_request ends the call in the
\* except branch, else the request of get_subdomains_page is sent
SearchMain ==
    /\ op = "search_schools" /\ pc = "main"
    /\ \E o \in SearchOutcomes :
          /\ SearchReceives(o)
          /\ LET main_page == AllowedEnvelope(o, Last(log).url)
             IN IF main_page.kind = "raise"
                THEN /\ result' = Return(schools)
                     /\ pc' = "done"
                     /\ UNCHANGED <<schools, log>>
                ELSE /\ schools' = schools \o MainPageSchools(AnchorsOf(main_page), args.query)
                     /\ log' = Append(log, Request("GET", _build_url("/subdomains"),
                                                   EmptyDict, 0))
                     /\ pc' = "subdomains"
                     /\ UNCHANGED result

\* step 2: get_subdomains_page returns; the request of the first test page is sent
SearchSubdomains ==
    /\ op = "search_schools" /\ pc = "subdomains"
    /\ \E o \in SearchOutcomes :
          /\ SearchReceives(o)
          /\ LET subdomains == SubdomainSchools(AllowedEnvelope(o, Last(log).url))
             IN schools' = schools \o
                    SelectSeq(subdomains,
                              LAMBDA school : Contains(Lower(school.name), Lower(args.query)))
    /\ log' = Append(log, Request("GET", _build_url(test_pages[1]), EmptyDict, 0))
    /\ pc' = test_pages[1]
    /\ UNCHANGED result

\* step 3: a test page; after the last one the duplicates are dropped and the
\* first 15 entries returned
SearchPage ==
    /\ op = "search_schools" /\ pc \in {test_pages[i] : i \in DOMAIN test_pages}
    /\ \E o \in SearchOutcomes :
          /\ SearchReceives(o)
          /\ LET page_result == AllowedEnvelope(o, Last(log).url)
             IN schools' = IF page_result.kind = "raise" THEN schools
                           ELSE schools \o TestPageSchools(AnchorsOf(page_result), args.query, pc)
    /\ IF PageIndex(pc) < Len(test_pages)
       THEN /\ log' = Append(log, Request("GET", _build_url(test_pages[PageIndex(pc) + 1]),
                                          EmptyDict, 0))
            /\ pc' = test_pages[PageIndex(pc) + 1]
            /\ UNCHANGED result
       ELSE /\ result' = Return(LimitSchools(UniqueSchools(schools', {})))
            /\ pc' = "done"
            /\ UNCHANGED log

\* get_subdomains_page called by itself, up to the await of its request; what
\* a session that cannot send raises is caught, and [] returned
GetSubdomainsPage ==
    /\ Begin("get_subdomains_page", [endpoint |-> "/subdomains"])
    /\ UNCHANGED <<session, cookies, leaked>>
    /\ IF SessionUnusable
       THEN /\ log' = <<>>
            /\ result' = Return(<<>>)
            /\ pc' = "done"
       ELSE /\ log' = <<Request("GET", _build_url("/subdomains"), EmptyDict, 0)>>
            /\ result' = NoResult
            /\ pc' = "subdomains"

\* its request ends, and the list of the page is returned as it was built
GetSubdomainsResponse ==
    /\ op = "get_subdomains_page" /\ pc = "subdomains"
    /\ \E o \in SearchOutcomes :
          /\ SearchReceives(o)
          /\ result' = Return(SubdomainSchools(AllowedEnvelope(o, Last(log).url)))
    /\ pc' = "done"
    /\ UNCHANGED <<schools, log>>

\* an instance that was not opened, is open or was closed
InitSearch ==
    /\ leaked = 0
    /\ outcomes = <<>>
    /\ schools = <<>>
    /\ InitBot
    /\ site = NoPage
    /\ session \in {"none", "open", "closed"}
    /\ cookies = {}
    /\ op = "idle"
    /\ pc = "done"
    /\ args = [was |-> "none"]
    /\ log = <<>>
    /\ hops = 0
    /\ login_status = 0
    /\ login_html = NoPage
    /\ found = NoFound
    /\ form_data = EmptyDict
    /\ post_first = NoResponse
    /\ auth_response = NoResponse
    /\ probe = 0
    /\ endpoints = NoEndpoints
    /\ result = NoResult

NextSearch ==
    \/ \E query \in Queries : SearchSchools(query)
    \/ SearchMain
    \/ SearchSubdomains
    \/ SearchPage
    \/ GetSubdomainsPage
    \/ GetSubdomainsResponse

SpecSearch == InitSearch /\ [][NextSearch]_vars

-----------------------------------------------------------------------------
(* The bot (src/bot.py): the login conversation, handle_password and          *)
(* schedule_command, one handler per user at a time, the handlers of          *)
(* different users interleaved at their awaits.  Each handler builds its own  *)
(* SchoolsAPI() and uses it in an async with block.                           *)

Running(name, at, left) == [op |-> name, pc |-> at, left |-> left]

At(u, name, at) == handlers[u].op = name /\ handlers[u].pc = at

\* updates that are handled while the handler of an earlier one is suspended
HandledConcurrently(u) == TRUE

\* Application.builder().token(token).build(): the updates are processed one
\* after the other, so an update of u is handled when no handler of u runs
NoHandlerOf(u) == handlers[u].op = "idle"

SetHandler(u, h) == handlers' = [handlers EXCEPT ![u] = h]

\* a jar that all sessions share
SharedJar(u) == CHOOSE v \in Users : TRUE

\* cookies=httpx.Cookies() in __aenter__: the jar of the session of u's handler
\* is a new one, of its own
JarOf(u) == u

\* a block that releases its session only when it runs to its end
ExitOnCompletionOnly(n, path) == IF path = "normal" THEN n - 1 ELSE n

\* the end of an async with block, left by path "normal", "return" or "raise":
\* __aexit__ runs and closes the session
AsyncWithExit(n, path) == n - 1

\* a cookie the server sets for the operation name of user u
CookieFor(u, name) == [of |-> u, during |-> name]

\* the cookies of the jar go out with a request of u's handler
Sending(u, jar) == sent \cup {[by |-> u, in |-> handlers[u].op, cookie |-> c] : c \in jar}

\* async with SchoolsAPI() as api: and the first request of the call in it
EnterBlock(u) ==
    /\ open_sessions' = open_sessions + 1
    /\ jars' = [jars EXCEPT ![JarOf(u)] = {}]
    /\ sent' = Sending(u, jars'[JarOf(u)])

\* a response arrives and may set a cookie
Receive(u, set_cookie) ==
    jars' = [jars EXCEPT ![JarOf(u)] =
                 IF set_cookie THEN @ \cup {CookieFor(u, handlers[u].op)} ELSE @]

\* login_command: the entry point of the conversation
LoginCommand(u) ==
    /\ NoHandlerOf(u) /\ conversation[u] = "END"
    /\ \E replied \in BOOLEAN :
          conversation' = [conversation EXCEPT ![u] =
                               IF u \notin DOMAIN user_sessions /\ replied
                               THEN "WAITING_LOGIN" ELSE "END"]
    /\ UNCHANGED <<handlers, jars, open_sessions, user_sessions, sent, user_data>>
    /\ UNCHANGED clientvars

\* handle_login: the text is kept as the username
HandleLogin(u, text) ==
    /\ NoHandlerOf(u) /\ conversation[u] = "WAITING_LOGIN"
    /\ user_data' = [user_data EXCEPT ![u] = Strip(text)]
    /\ \E replied \in BOOLEAN :
          conversation' = [conversation EXCEPT ![u] =
                               IF replied THEN "WAITING_PASSWORD" ELSE @]
    /\ UNCHANGED <<handlers, jars, open_sessions, user_sessions, sent>>
    /\ UNCHANGED clientvars

\* cancel_command: the fallback of the conversation
CancelCommand(u) ==
    /\ NoHandlerOf(u) /\ conversation[u] # "END"
    /\ \E replied \in BOOLEAN :
          conversation' = [conversation EXCEPT ![u] = IF replied THEN "END" ELSE @]
    /\ UNCHANGED <<handlers, jars, open_sessions, user_sessions, sent, user_data>>
    /\ UNCHANGED clientvars

\* handle_password, up to the await of the reply "checking"
HandlePassword(u) ==
    /\ NoHandlerOf(u) /\ conversation[u] = "WAITING_PASSWORD"
    /\ SetHandler(u, Running("handle_password", "notify", "none"))
    /\ UNCHANGED <<jars, open_sessions, user_sessions, sent, conversation, user_data>>
    /\ UNCHANGED clientvars

\* a handler that ends and leaves the conversation where it is
KeepsConversation(u, left) ==
    /\ SetHandler(u, Ended(left))
    /\ UNCHANGED conversation

\* the handler ends with return ConversationHandler.END
ReturnsEnd(u, left) ==
    /\ SetHandler(u, Ended(left))
    /\ conversation' = [conversation EXCEPT ![u] = "END"]

\* the handler ends with an exception: the conversation keeps its state
HandlerRaises(u, left) ==
    /\ SetHandler(u, Ended(left))
    /\ UNCHANGED conversation

\* the reply went out (or not, outside the try); the block is entered and
\* authenticate sends the GET of the site root
PasswordNotified(u) ==
    /\ At(u, "handle_password", "notify")
    /\ \E replied \in BOOLEAN :
          IF replied
          THEN /\ EnterBlock(u)
               /\ SetHandler(u, Running("handle_password", "root", "none"))
               /\ UNCHANGED conversation
          ELSE /\ HandlerRaises(u, "none")
               /\ UNCHANGED <<jars, open_sessions, sent>>
    /\ UNCHANGED <<user_sessions, user_data>>
    /\ UNCHANGED clientvars

\* authenticate raises SchoolsAPIError: the block is left, the except branch replies
PasswordAuthFails(u) ==
    /\ open_sessions' = AsyncWithExit(open_sessions, "raise")
    /\ SetHandler(u, Running("handle_password", "reply_err", "raise"))
    /\ UNCHANGED <<jars, sent>>

\* a request of authenticate is answered and the next one is sent
PasswordAuthStep(u, at, next) ==
    /\ At(u, "handle_password", at)
    /\ \/ PasswordAuthFails(u)
       \/ \E set_cookie \in BOOLEAN :
             /\ Receive(u, set_cookie)
             /\ sent' = Sending(u, jars'[JarOf(u)])
             /\ SetHandler(u, Running("handle_password", next, "none"))
             /\ UNCHANGED open_sessions
    /\ UNCHANGED <<user_sessions, conversation, user_data>>
    /\ UNCHANGED clientvars

PasswordRoot(u) == PasswordAuthStep(u, "root", "login")

PasswordLogin(u) == PasswordAuthStep(u, "login", "post")

\* what authenticate returns to the bot
AuthResults ==
    {[success |-> TRUE, message |-> "Authentication successful"],
     [success |-> FALSE, error |-> "Authentication failed: Bad login"]}

\* the credential POST is answered: authenticate raises, or returns a Failure
\* (the reply is awaited inside the block), or returns a Success (the entry is
\* stored, the block is left and the reply is awaited after it)
PasswordPost(u) ==
    /\ At(u, "handle_password", "post")
    /\ \/ /\ PasswordAuthFails(u)
          /\ UNCHANGED user_sessions
       \/ \E set_cookie \in BOOLEAN, auth_result \in AuthResults :
             /\ Receive(u, set_cookie)
             /\ UNCHANGED sent
             /\ IF ~auth_result.success
                THEN /\ SetHandler(u, Running("handle_password", "reply_fail", "none"))
                     /\ UNCHANGED <<open_sessions, user_sessions>>
                ELSE /\ user_sessions' =
                            Put(user_sessions, u,
                                [username |-> user_data[u], authenticated |-> TRUE,
                                 auth_data |-> auth_result])
                     /\ open_sessions' = AsyncWithExit(open_sessions, "normal")
                     /\ SetHandler(u, Running("handle_password", "reply_ok", "normal"))
    /\ UNCHANGED <<conversation, user_data>>
    /\ UNCHANGED clientvars

\* the reply of the Failure branch, inside the block: return from inside it,
\* or the reply raises and the second except branch replies
PasswordReplyFail(u) ==
    /\ At(u, "handle_password", "reply_fail")
    /\ \E replied \in BOOLEAN :
          IF replied
          THEN /\ open_sessions' = AsyncWithExit(open_sessions, "return")
               /\ ReturnsEnd(u, "return")
          ELSE /\ open_sessions' = AsyncWithExit(open_sessions, "raise")
               /\ SetHandler(u, Running("handle_password", "reply_err", "raise"))
               /\ UNCHANGED conversation
    /\ UNCHANGED <<jars, user_sessions, sent, user_data>>
    /\ UNCHANGED clientvars

\* the reply after the block
PasswordReplyOk(u) ==
    /\ At(u, "handle_password", "reply_ok")
    /\ \E replied \in BOOLEAN :
          IF replied
          THEN ReturnsEnd(u, handlers[u].left)
          ELSE /\ SetHandler(u, Running("handle_password", "reply_err", handlers[u].left))
               /\ UNCHANGED conversation
    /\ UNCHANGED <<jars, open_sessions, user_sessions, sent, user_data>>
    /\ UNCHANGED clientvars

\* the reply of an except branch
PasswordReplyErr(u) ==
    /\ At(u, "handle_password", "reply_err")
    /\ \E replied \in BOOLEAN :
          IF replied THEN ReturnsEnd(u, handlers[u].left)
          ELSE HandlerRaises(u, handlers[u].left)
    /\ UNCHANGED <<jars, open_sessions, user_sessions, sent, user_data>>
    /\ UNCHANGED clientvars

\* _check_authentication
_check_authentication(u) ==
    u \in DOMAIN user_sessions /\ user_sessions[u].authenticated

\* schedule_command, up to its first await
ScheduleCommand(u) ==
    /\ NoHandlerOf(u)
    /\ SetHandler(u, Running("schedule_command",
                             IF _check_authentication(u) THEN "notify" ELSE "reply_login",
                             "none"))
    /\ UNCHANGED <<jars, open_sessions, user_sessions, sent, conversation, user_data>>
    /\ UNCHANGED clientvars

\* the reply "log in first", and the reply of the except branch: the handler ends
ScheduleEnds(u) ==
    /\ \/ At(u, "schedule_command", "reply_login")
       \/ At(u, "schedule_command", "reply_err")
    /\ SetHandler(u, Ended(handlers[u].left))
    /\ UNCHANGED <<jars, open_sessions, user_sessions, sent, conversation, user_data>>
    /\ UNCHANGED clientvars

\* the reply "fetching" inside the try; the block is entered and get_schedule
\* sends its request
ScheduleNotified(u) ==
    /\ At(u, "schedule_command", "notify")
    /\ \E replied \in BOOLEAN :
          IF replied
          THEN /\ EnterBlock(u)
               /\ SetHandler(u, Running("schedule_command", "request", "none"))
          ELSE /\ SetHandler(u, Running("schedule_command", "reply_err", "none"))
               /\ UNCHANGED <<jars, open_sessions, sent>>
    /\ UNCHANGED <<user_sessions, conversation, user_data>>
    /\ UNCHANGED clientvars

\* get_schedule raises, or returns and the schedule is replied inside the
\* block: a mapping without the key 'html' is replied as it is, for any other
\* the entry of the user is read again, which raises KeyError if it is gone
ScheduleResponse(u) ==
    /\ At(u, "schedule_command", "request")
    /\ \/ /\ open_sessions' = AsyncWithExit(open_sessions, "raise")
          /\ SetHandler(u, Running("schedule_command", "reply_err", "raise"))
          /\ UNCHANGED jars
       \/ \E set_cookie \in BOOLEAN, structured \in BOOLEAN :
             /\ Receive(u, set_cookie)
             /\ IF structured \/ u \in DOMAIN user_sessions
                THEN /\ SetHandler(u, Running("schedule_command", "reply", "none"))
                     /\ UNCHANGED open_sessions
                ELSE /\ open_sessions' = AsyncWithExit(open_sessions, "raise")
                     /\ SetHandler(u, Running("schedule_command", "reply_err", "raise"))
    /\ UNCHANGED <<user_sessions, sent, conversation, user_data>>
    /\ UNCHANGED clientvars

\* the reply with the schedule, the last statement of the block
ScheduleReplied(u) ==
    /\ At(u, "schedule_command", "reply")
    /\ \E replied \in BOOLEAN :
          IF replied
          THEN /\ open_sessions' = AsyncWithExit(open_sessions, "normal")
               /\ SetHandler(u, Ended("normal"))
          ELSE /\ open_sessions' = AsyncWithExit(open_sessions, "raise")
               /\ SetHandler(u, Running("schedule_command", "reply_err", "raise"))
    /\ UNCHANGED <<jars, user_sessions, sent, conversation, user_data>>
    /\ UNCHANGED clientvars

\* the commands that answer with data without a request to the site
DataCommands ==
    {"grades_command", "homework_command", "announcements_command", "profile_command"}

\* grades_command, homework_command, announcements_command and
\* profile_command, up to the first await
DataCommand(u, name) ==
    /\ NoHandlerOf(u)
    /\ SetHandler(u, Running(name,
                             IF _check_authentication(u) THEN "notify" ELSE "reply_login",
                             "none"))
    /\ UNCHANGED <<jars, open_sessions, user_sessions, sent, conversation, user_data>>
    /\ UNCHANGED clientvars

\* the reply "fetching" inside the try, then the entry of the user is read
\* (announcements_command does not read it) and the data are replied
DataNotified(u, name) ==
    /\ At(u, name, "notify")
    /\ \E replied \in BOOLEAN :
          SetHandler(u, Running(name,
                                IF /\ replied
                                   /\ name # "announcements_command"
                                          => u \in DOMAIN user_sessions
                                THEN "reply_data" ELSE "reply_err",
                                "none"))
    /\ UNCHANGED <<jars, open_sessions, user_sessions, sent, conversation, user_data>>
    /\ UNCHANGED clientvars

\* the reply with the data: the handler ends, or the except branch replies
DataReplied(u, name) ==
    /\ At(u, name, "reply_data")
    /\ \E replied \in BOOLEAN :
          SetHandler(u, IF replied THEN Ended("none") ELSE Running(name, "reply_err", "none"))
    /\ UNCHANGED <<jars, open_sessions, user_sessions, sent, conversation, user_data>>
    /\ UNCHANGED clientvars

\* the reply "log in first", and the reply of the except branch: the handler ends
DataEnds(u, name) ==
    /\ At(u, name, "reply_login") \/ At(u, name, "reply_err")
    /\ SetHandler(u, Ended("none"))
    /\ UNCHANGED <<jars, open_sessions, user_sessions, sent, conversation, user_data>>
    /\ UNCHANGED clientvars

\* a deletion that leaves the mapping as it is
KeepsEntry(d, k) == d

\* a deletion that empties the mapping
ClearsAll(d, k) == EmptyDict

\* del d[k]
Del(d, k) == [x \in (DOMAIN d) \ {k} |-> d[x]]

\* logout_command: the entry of the user, if there is one, is deleted before
\* the only await of the handler, the reply
LogoutCommand(u) ==
    /\ NoHandlerOf(u)
    /\ user_sessions' = IF u \in DOMAIN user_sessions THEN Del(user_sessions, u)
                        ELSE user_sessions
    /\ SetHandler(u, Running("logout_command", "reply_logout", "none"))
    /\ UNCHANGED <<jars, open_sessions, sent, conversation, user_data>>
    /\ UNCHANGED clientvars

\* the reply of logout_command, sent or not: the handler ends
LogoutReplied(u) ==
    /\ At(u, "logout_command", "reply_logout")
    /\ SetHandler(u, Ended("none"))
    /\ UNCHANGED <<jars, open_sessions, user_sessions, sent, conversation, user_data>>
    /\ UNCHANGED clientvars

NextBot ==
    \E u \in Users :
        \/ LoginCommand(u)
        \/ \E text \in Usernames : HandleLogin(u, text)
        \/ CancelCommand(u)
        \/ HandlePassword(u)
        \/ PasswordNotified(u)
        \/ PasswordRoot(u)
        \/ PasswordLogin(u)
        \/ PasswordPost(u)
        \/ PasswordReplyFail(u)
        \/ PasswordReplyOk(u)
        \/ PasswordReplyErr(u)
        \/ ScheduleCommand(u)
        \/ ScheduleEnds(u)
        \/ ScheduleNotified(u)
        \/ ScheduleResponse(u)
        \/ ScheduleReplied(u)
        \/ \E name \in DataCommands : DataCommand(u, name)
        \/ \E name \in DataCommands : DataNotified(u, name)
        \/ \E name \in DataCommands : DataReplied(u, name)
        \/ \E name \in DataCommands : DataEnds(u, name)
        \/ LogoutCommand(u)
        \/ LogoutReplied(u)

\* the bot after its construction, the client instance of the other parts unused
InitBotOnly == Init /\ site = NoPage

SpecBot == InitBotOnly /\ [][NextBot]_vars

-----------------------------------------------------------------------------
(* Properties of authenticate *)

\* the requests of the running call that the client itself issued (not the
\* transport, following a redirect)
DirectRequests == SelectSeq(log, LAMBDA r : r.hop = 0)

PostSent == \E i \in DOMAIN log : log[i].method = "POST"

\* the first form of the page has a named input that can be the username
\* field and a named input that can be the password field
HasNamedCandidates(html) ==
    /\ \E i \in DOMAIN html.inputs :
          Truthy(html.inputs[i].name) /\ UsernameCandidate(html.inputs[i])
    /\ \E i \in DOMAIN html.inputs :
          Truthy(html.inputs[i].name) /\ PasswordCandidate(html.inputs[i])

\* C1: the requests of authenticate go out in the order GET site root, GET
\* login page, POST credentials, and a POST is on the wire only if the login
\* page came with status 200 and its first form gave a username field and a
\* password field; otherwise no POST is ever sent.
C1_RequestOrder ==
    op = "authenticate" =>
        /\ Len(DirectRequests) <= 3
        /\ \A i \in DOMAIN DirectRequests :
              /\ DirectRequests[i].method = <<"GET", "GET", "POST">>[i]
              /\ i = 1 => DirectRequests[i].url = _build_url("/")
              /\ i = 2 => DirectRequests[i].url = _build_url("/login")
        /\ \A i \in DOMAIN log : log[i].method = "POST" => i >= 3
        /\ PostSent =>
              /\ login_status = 200
              /\ login_html.form
              /\ HasNamedCandidates(login_html)
              /\ Truthy(found.username_field) /\ Truthy(found.password_field)

\* the credential POST is on the wire, after a redirect of the login GET was followed
C1_Witness ==
    /\ op = "authenticate" /\ pc = "post"
    /\ Len(log) = 4 /\ log[3].hop = 1 /\ log[4].method = "POST"

AuthDone == op = "authenticate" /\ pc = "done"

AuthReturned == AuthDone /\ result.kind = "return"

\* C2: when the server answers the credential POST with 302, 303 or 307,
\* authenticate returns Success with the cookie snapshot and the redirect
\* target if the Location does not contain "/login" (case-insensitive), and
\* Failure otherwise.
C2_RedirectOutcome ==
    (AuthDone /\ post_first.status \in {302, 303, 307}) =>
        /\ result.kind = "return"
        /\ IF ~Contains(Lower(Get(post_first.location, "")), "/login")
           THEN /\ result.value.success
                /\ "redirect" \in DOMAIN result.value
                /\ result.value.redirect = Get(post_first.location, "")
                /\ result.value.cookies = cookies
           ELSE ~result.value.success

\* the elements of the response of the POST that the scan for errors is said to take
C3_ErrorClass(elem) ==
    /\ elem.class # None
    /\ \/ Contains(Lower(elem.class), "error")
       \/ Contains(Lower(elem.class), "alert")

C3_Outcome(matching) ==
    IF matching # <<>>
    THEN /\ ~result.value.success
         /\ result.value.error = "Authentication failed: " \o Join(Texts(matching))
    ELSE /\ result.value.success
         /\ result.value.cookies = cookies

\* C3 as stated: on a 200 the outcome is Failure with the text of the elements
\* whose class contains "error" or "alert", whatever their tag, and Success
\* with the cookie jar when there is none.
C3_AnyTag ==
    (AuthReturned /\ auth_response.status = 200) =>
        C3_Outcome(SelectSeq(auth_response.elements, C3_ErrorClass))

\* C3, amended: the same, for the div, span and p elements whose class contains
\* "error" or "alert"; an element with another tag does not count.
C3_DivSpanP ==
    (AuthReturned /\ auth_response.status = 200) =>
        C3_Outcome(SelectSeq(auth_response.elements,
                             LAMBDA elem : elem.tag \in {"div", "span", "p"}
                                               /\ C3_ErrorClass(elem)))

\* a 200 with two matching elements around one that does not match
C3_Witness ==
    /\ AuthReturned /\ auth_response.status = 200
    /\ Len(auth_response.elements) = 3
    /\ result.value.error = "Authentication failed: Bad login Try again"

\* C4: whatever fails inside authenticate leaves it as one SchoolsAPIError whose
\* message contains the message of the cause; no other kind escapes.
C4_OnlyOwnError ==
    (op = "authenticate" /\ result.kind = "raise") =>
        /\ result.exc = "SchoolsAPIError"
        /\ Contains(result.msg, result.cause.msg)
        /\ pc = "done"

\* a transport error of the credential POST, wrapped
C4_Witness ==
    /\ AuthDone /\ result.kind = "raise"
    /\ PostSent
    /\ result.cause.exc = "ConnectError"

-----------------------------------------------------------------------------
(* Properties of the login-form inference *)

\* the login page arrived with status 200 and has a form
FormRead == op = "authenticate" /\ login_status = 200 /\ login_html.form

FieldsError(side) ==
    /\ pc = "done"
    /\ result.kind = "raise" /\ result.exc = "SchoolsAPIError"
    /\ result.cause.exc = "SchoolsAPIError"
    /\ StartsWith(result.cause.msg, "Cannot find login fields.")
    /\ Contains(result.msg, side \o "=None")
    /\ ~PostSent

C5_NoPassword(html) ==
    \A i \in DOMAIN html.inputs :
        /\ Lower(Get(html.inputs[i].type, "")) # "password"
        /\ Lower(Get(html.inputs[i].name, "")) \notin {"password", "pass", "pwd"}

C5_NoUsername(html) ==
    \A i \in DOMAIN html.inputs :
        /\ Lower(Get(html.inputs[i].type, "")) # "email"
        /\ Lower(Get(html.inputs[i].name, ""))
               \notin {"username", "login", "email", "user", "login_name"}

\* C5: a form with no input of type password and no input named password, pass
\* or pwd makes authenticate fail with the error of the missing fields, which
\* says that the password side was not found; the same for the username side.
C5_MissingSide ==
    FormRead =>
        /\ C5_NoPassword(login_html) => FieldsError("password")
        /\ C5_NoUsername(login_html) => FieldsError("username")

\* a form with a username field and other inputs, none of them for the password
C5_Witness ==
    /\ FormRead /\ pc = "done"
    /\ Len(login_html.inputs) >= 2
    /\ found.username_field = "mail"
    /\ C5_NoPassword(login_html)

Min(S) == CHOOSE x \in S : \A y \in S : x <= y

Max(S) == CHOOSE x \in S : \A y \in S : y <= x

\* the named inputs that can be the username field, by position
C6_UserPositions(inputs) ==
    {i \in DOMAIN inputs : Truthy(inputs[i].name) /\ UsernameCandidate(inputs[i])}

\* the named inputs that can be the password field, the one at position u apart
C6_PassPositions(inputs, u) ==
    {j \in DOMAIN inputs :
         j # u /\ Truthy(inputs[j].name) /\ PasswordCandidate(inputs[j])}

-----------------------------------------------------------------------------
(* Properties of the CSRF token *)

\* the value of the first input of the page with that name, when it is not empty
C7_InputToken(name) ==
    LET doc == login_html.inputs \o login_html.outside
        at == {i \in DOMAIN doc : doc[i].name = name}
    IN IF at # {} /\ Truthy(doc[Min(at)].value) THEN doc[Min(at)].value ELSE None

C7_MetaToken == IF Truthy(login_html.meta.content) THEN login_html.meta.content ELSE None

C8_Present ==
    {login_html.inputs[i].name :
         i \in {j \in DOMAIN login_html.inputs : login_html.inputs[j].type = "hidden"}}
    \cap csrf_names

C8_Preferred ==
    IF "csrfmiddlewaretoken" \in C8_Present THEN "csrfmiddlewaretoken"
    ELSE IF "_token" \in C8_Present THEN "_token"
    ELSE "csrf_token"

\* C8: a token that was found is submitted under the canonical name present on
\* the form, the first present one in the order csrfmiddlewaretoken, _token,
\* csrf_token; when the form has none of the three, no CSRF key is submitted.
C8_PreferenceOrder ==
    (FormRead /\ pc = "post" /\ Truthy(found.csrf_token)) =>
        IF C8_Present = {}
        THEN DOMAIN form_data \cap csrf_names = {}
        ELSE /\ found.csrf_name = C8_Preferred
             /\ form_data[C8_Preferred] = found.csrf_token

C9_HiddenPositions(name) ==
    {i \in DOMAIN login_html.inputs :
         login_html.inputs[i].type = "hidden" /\ login_html.inputs[i].name = name}

C9_HiddenNames ==
    {login_html.inputs[i].name :
         i \in {j \in DOMAIN login_html.inputs :
                    /\ login_html.inputs[j].type = "hidden"
                    /\ Truthy(login_html.inputs[j].name)}}

\* the value of the hidden field of that name (of the last one, if several)
C9_HiddenValue(name) == Get(login_html.inputs[Max(C9_HiddenPositions(name))].value, "")

C9_CsrfResolved == Truthy(found.csrf_token) /\ Truthy(found.csrf_name)

C9_Keys ==
    C9_HiddenNames \cup {found.username_field, found.password_field}
        \cup (IF C9_CsrfResolved THEN {found.csrf_name} ELSE {})

C9_Injected ==
    {found.username_field, found.password_field}
        \cup (IF C9_CsrfResolved THEN {found.csrf_name} ELSE {})

\* C9 as stated: the body of the POST is the named hidden fields with their
\* values, the username field with the username, the password field with the
\* password and, when resolved, the CSRF field with the token; an injected
\* value wins over a hidden field of the same name; there is no other key.
C9_Union ==
    (FormRead /\ pc = "post") =>
        /\ Last(log).data = form_data
        /\ DOMAIN form_data = C9_Keys
        /\ form_data[found.username_field] = args.username
        /\ form_data[found.password_field] = args.password
        /\ C9_CsrfResolved => form_data[found.csrf_name] = found.csrf_token
        /\ \A k \in C9_HiddenNames \ C9_Injected : form_data[k] = C9_HiddenValue(k)

\* C9, amended: the body has exactly these keys, and where names collide the
\* later write wins, in the order hidden fields, username, password, CSRF
\* token: so the password replaces the username when both fields have one name.
C9_LaterWins ==
    (FormRead /\ pc = "post") =>
        /\ Last(log).data = form_data
        /\ DOMAIN form_data = C9_Keys
        /\ \A k \in DOMAIN form_data :
              form_data[k] =
                  IF C9_CsrfResolved /\ k = found.csrf_name THEN found.csrf_token
                  ELSE IF k = found.password_field THEN args.password
                  ELSE IF k = found.username_field THEN args.username
                  ELSE C9_HiddenValue(k)

\* a hidden field with the name of the username field, and a resolved CSRF field
C9_Witness ==
    /\ FormRead /\ pc = "post"
    /\ found.username_field \in C9_HiddenNames
    /\ C9_CsrfResolved
    /\ Cardinality(DOMAIN form_data) = 3

-----------------------------------------------------------------------------
(* Properties of the session lifecycle *)

\* C10: closing a session a second time, or a request through a session that
\* was never opened or is closed, fails with the client's own error and no
\* other kind, and sends no HTTP request.
C10_StateError ==
    /\ (op = "__aexit__" /\ args.was = "closed") =>
           result.kind = "raise" /\ result.exc = "SchoolsAPIError"
    /\ (/\ op \in {"authenticate", "_make_request", "discover_endpoints"}
        /\ pc = "done"
        /\ session # "open")
       => /\ result.kind = "raise" /\ result.exc = "SchoolsAPIError"
          /\ log = <<>>

\* the AsyncClients of the instance that are open: the one self.session holds
\* and the ones it held before and never closed
OpenClients == leaked + (IF session = "open" THEN 1 ELSE 0)

\* C11: an instance has at most one open session in every state: entering an
\* instance that holds an open session does not leave two open, and an
\* instance that was closed cannot be entered again.
C11_SingleSession ==
    /\ OpenClients <= 1
    /\ (op = "__aenter__" /\ args.was = "closed") => result.kind = "raise"

-----------------------------------------------------------------------------
(* Properties of the sessions of the bot *)

\* the handler of u is inside its async with block
InBlock(u) == handlers[u].pc \in {"root", "login", "post", "reply_fail", "request", "reply"}

\* the handler of u has started and not ended
InFlight(u) == handlers[u].op # "idle"

\* C12 as stated: the session of a block is released on every path out of the
\* block, and the number of open sessions is the number of operations in flight.
C12_OpenEqualsInFlight ==
    open_sessions = Cardinality({u \in Users : InFlight(u)})

\* C12, amended: the session of a block is released when the block is left,
\* by running to its end, by a return from inside it or by an exception: the
\* open sessions are as many as the handlers that are inside their block; a
\* handler that is in flight before or after its block holds none, and no
\* session is open when no handler is in flight.
C12_OpenEqualsInBlock ==
    /\ open_sessions = Cardinality({u \in Users : InBlock(u)})
    /\ \A u \in Users : handlers[u].left # "none" => ~InBlock(u)
    /\ (\A u \in Users : ~InFlight(u)) => open_sessions = 0

\* one handler has returned from inside its block, the other left its block by
\* an exception and is replying, and no session is open
C12_Witness ==
    /\ open_sessions = 0
    /\ \E u, v \in Users :
          /\ handlers[u] = Ended("return")
          /\ handlers[v].pc = "reply_err" /\ handlers[v].left = "raise"

\* C13: an operation of the bot works on a session of its own, whose jar is
\* empty when the block is entered: whatever the interleaving, a cookie that
\* goes out in a request of an operation was set for this user during this
\* operation, and the jar of an operation inside its block holds no other.
C13_OwnCookiesOnly ==
    /\ \A m \in sent : m.cookie.of = m.by /\ m.cookie.during = m.in
    /\ \A u \in Users :
          InBlock(u) => jars[JarOf(u)] \subseteq {CookieFor(u, handlers[u].op)}

\* both users are inside their blocks, each has sent a cookie of its own, and
\* one of them sent one in its login and now fetches the schedule
C13_Witness ==
    /\ \A u \in Users : InBlock(u)
    /\ \A u \in Users : \E m \in sent : m.by = u
    /\ \E u \in Users :
          /\ handlers[u].op = "schedule_command"
          /\ [by |-> u, in |-> "handle_password",
              cookie |-> CookieFor(u, "handle_password")] \in sent

-----------------------------------------------------------------------------
(* Properties of _make_request *)

\* a _make_request call has ended after its request had an outcome
MakeDone == op = "_make_request" /\ pc = "done" /\ outcomes # <<>>

\* the call ended on a response, or on a transport error
Answered == MakeDone /\ outcomes[1].kind = "response"

TransportFailed == MakeDone /\ outcomes[1].kind = "error"

\* the line is a candidate, and its text from the first { to the last } parses
C18_Parses(line) ==
    /\ Contains(Lower(line), "data") \/ Contains(Lower(line), "config")
    /\ FindFrom(line, "{", 1) # 0
    /\ RFindFrom(line, "}", Len(line)) # 0
    /\ JsonLoads(Slice(line, FindFrom(line, "{", 1), RFindFrom(line, "}", Len(line)))).ok

C18_Parsed(line) ==
    JsonLoads(Slice(line, FindFrom(line, "{", 1), RFindFrom(line, "}", Len(line)))).value

\* the lines of the script blocks, in document order: of every block that has
\* text (any = TRUE), or of the blocks whose text contains "window." or "var "
RECURSIVE C18_Lines(_, _)
C18_Lines(scripts, any) ==
    IF scripts = <<>> THEN <<>>
    ELSE LET content == Strip(Get(Head(scripts), ""))
         IN (IF /\ Truthy(Head(scripts))
                /\ any \/ Contains(content, "window.") \/ Contains(content, "var ")
             THEN SplitLines(content) ELSE <<>>)
            \o C18_Lines(Tail(scripts), any)

\* what the first line that parses gives, and whether there is one
C18_FirstParsed(lines) ==
    LET hits == {i \in DOMAIN lines : C18_Parses(lines[i])}
    IN IF hits = {} THEN [ok |-> FALSE, value |-> EmptyDict]
       ELSE [ok |-> TRUE, value |-> C18_Parsed(lines[Min(hits)])]

C18_Extraction(response, any) ==
    LET first == C18_FirstParsed(C18_Lines(response.scripts, any))
    IN IF first.ok THEN first.value ELSE [html |-> response.text]

\* C14: a 200 response that is not JSON gives the extracted mapping whenever
\* the extraction parsed a non-empty mapping from the page, and otherwise the
\* raw markup with the whole body and the status 200.
C14_StructuredOrRaw ==
    (/\ Answered
     /\ outcomes[1].response.status = 200
     /\ ~Contains(outcomes[1].response.content_type, "application/json"))
    => LET response == outcomes[1].response
           first == C18_FirstParsed(C18_Lines(response.scripts, FALSE))
       IN result = IF first.ok /\ DOMAIN first.value # {}
                   THEN Return(first.value)
                   ELSE Return([html |-> response.text, status |-> 200])

\* a response that is not 200 and not a markup page of status 500
C15_OtherError(response) ==
    /\ response.status # 200
    /\ ~(response.status = 500 /\ Contains(response.content_type, "html"))

\* C15: a response that is not 200 and not a markup 500 raises, without
\* allow_errors, the client's error whose message has the status and at most
\* the first 200 characters of the body; with allow_errors it is returned as
\* raw markup tagged as error, with the status and the URL the response came
\* from.
C15_RaiseOrTagged ==
    (Answered /\ C15_OtherError(outcomes[1].response)) =>
        LET response == outcomes[1].response
            excerpt == IF Len(response.text) <= 200 THEN response.text
                       ELSE SubSeq(response.text, 1, 200)
        IN IF args.allow_errors
           THEN result = Return([html |-> response.text, status |-> response.status,
                                 error |-> TRUE, url |-> Last(log).url])
           ELSE /\ result.kind = "raise" /\ result.exc = "SchoolsAPIError"
                /\ result.msg = "HTTP " \o ToString(response.status) \o ": "
                                    \o excerpt \o "..."
                /\ Len(result.msg) <= 200 + Len("HTTP 000: ...")

\* a body of more than 200 characters, cut in the message of the error
C15_Witness ==
    /\ Answered /\ C15_OtherError(outcomes[1].response)
    /\ ~args.allow_errors
    /\ Len(outcomes[1].response.text) > 200
    /\ result.kind = "raise"

\* C16: a response of status 500 with a markup content type is returned, with
\* allow_errors or without: raw markup with the body, the status 500 and the
\* error tag.
C16_DiagnosticPage ==
    (/\ Answered
     /\ outcomes[1].response.status = 500
     /\ Contains(outcomes[1].response.content_type, "html"))
    => /\ result.kind = "return"
       /\ result.value.html = outcomes[1].response.text
       /\ result.value.status = 500
       /\ result.value.error = TRUE

C16_Witness ==
    /\ Answered
    /\ outcomes[1].response.status = 500
    /\ Contains(outcomes[1].response.content_type, "html")
    /\ ~args.allow_errors
    /\ result.kind = "return"

\* C17: a transport failure raises the client's error without allow_errors, and
\* with allow_errors it is returned as an error payload with the client_error
\* flag and the message of the failure.
C17_TransportFailure ==
    TransportFailed =>
        IF args.allow_errors
        THEN result = Return([error |-> outcomes[1].msg, client_error |-> TRUE])
        ELSE /\ result.kind = "raise" /\ result.exc = "SchoolsAPIError"
             /\ result.msg = "Request failed: " \o outcomes[1].msg

\* a timeout with allow_errors
C17_Witness ==
    /\ TransportFailed
    /\ outcomes[1].exc = "ReadTimeout"
    /\ args.allow_errors
    /\ result.kind = "return"

\* C18 as stated: the extraction gives the mapping of the first line, over the
\* script blocks in document order, that contains "data" or "config", has both
\* braces and parses; lines that do not parse are skipped; the fallback with
\* the markup when there is no such line.
C18_EveryScript ==
    Answered =>
        _extract_json_from_html(outcomes[1].response)
            = C18_Extraction(outcomes[1].response, TRUE)

\* C18, amended: the same, over the lines of the script blocks whose text
\* contains "window." or "var "; the other blocks are not scanned.
C18_VarOrWindowScripts ==
    Answered =>
        _extract_json_from_html(outcomes[1].response)
            = C18_Extraction(outcomes[1].response, FALSE)

\* a line that does not parse, then one that does, after a block without var
C18_Witness ==
    /\ Answered
    /\ Len(outcomes[1].response.scripts) = 2
    /\ outcomes[1].response.scripts[1] = "const config = {\"a\": 1};"
    /\ outcomes[1].response.scripts[2] = "var data = {bad};\nvar config = {\"a\": 1};"
    /\ result = Return([a |-> 1])

-----------------------------------------------------------------------------
(* Properties of discover_endpoints *)

DiscoverDone == op = "discover_endpoints" /\ pc = "done"

C19_Partitions == {"working", "redirects", "failing"}

\* where the entries of an endpoint are: partition and position
C19_Entries(endpoint) ==
    {<<part, k>> \in C19_Partitions \X (1..Len(test_endpoints)) :
         k \in DOMAIN endpoints[part] /\ endpoints[part][k].endpoint = endpoint}

\* the partition of an outcome, given the statuses that count as redirects
C19_PartitionOf(o, redirect_statuses) ==
    IF o.kind = "error" THEN "failing"
    ELSE IF o.response.status = 200 THEN "working"
    ELSE IF o.response.status \in redirect_statuses THEN "redirects"
    ELSE "failing"

\* the call does not raise; every probed path has one entry, in the partition
\* of its outcome, with the status (or the error) and, for a redirect, the
\* Location of the response
C19_Classified(redirect_statuses) ==
    /\ op = "discover_endpoints" => result.kind # "raise"
    /\ DiscoverDone =>
          /\ result = Return(endpoints)
          /\ \A i \in DOMAIN test_endpoints :
                /\ Cardinality(C19_Entries(test_endpoints[i])) = 1
                /\ \A e \in C19_Entries(test_endpoints[i]) :
                      LET entry == endpoints[e[1]][e[2]]
                      IN IF outcomes = <<>>
                         THEN e[1] = "failing" /\ "error" \in DOMAIN entry
                         ELSE /\ e[1] = C19_PartitionOf(outcomes[i], redirect_statuses)
                              /\ IF outcomes[i].kind = "error"
                                 THEN entry.error = outcomes[i].msg
                                 ELSE entry.status = outcomes[i].response.status
                              /\ e[1] = "redirects" =>
                                    entry.location = Get(outcomes[i].response.location, "")

\* C19 as stated: every path of the probe list is classified once: 200 is
\* working, every 30x status is a redirect with its Location, every other
\* status and every transport error is failing; the call never raises.
C19_Every30x == C19_Classified(300..309)

\* C19, amended: the same, where the redirects are the statuses 301, 302, 303,
\* 307 and 308 (with the Location, or "" when the response has none); 300, 304
\* and the other 30x statuses are failing.
C19_FollowableRedirects == C19_Classified({301, 302, 303, 307, 308})

\* a redirect with its Location and a transport error
C19_Witness ==
    /\ DiscoverDone
    /\ Len(endpoints.redirects) = 1 /\ endpoints.redirects[1].location = "/new"
    /\ Len(endpoints.failing) = 1 /\ "error" \in DOMAIN endpoints.failing[1]

-----------------------------------------------------------------------------
(* Properties of search_schools *)

SearchDone == op = "search_schools" /\ pc = "done"

\* the positions of schools at which a url is seen for the first time
C20_FirstSeen ==
    {k \in DOMAIN schools : \A j \in 1..(k - 1) : schools[j].url # schools[k].url}

\* the i-th of these positions
C20_Nth(i) ==
    CHOOSE k \in C20_FirstSeen : Cardinality({j \in C20_FirstSeen : j <= k}) = i

\* C20: on every return of search_schools, the one of the except branch
\* included, the list returned has pairwise distinct hrefs and at most 15
\* entries, which are the first-seen entries in the order in which the main
\* page, the subdomains page and the test pages gave them.
C20_DistinctOrderedCapped ==
    SearchDone =>
        /\ result.kind = "return"
        /\ LET list == result.value
           IN /\ \A i, j \in DOMAIN list : i # j => list[i].url # list[j].url
              /\ Len(list) <= 15
              /\ Len(list) = IF Cardinality(C20_FirstSeen) < 15
                             THEN Cardinality(C20_FirstSeen) ELSE 15
              /\ \A i \in DOMAIN list : list[i] = schools[C20_Nth(i)]

\* more than 15 distinct hrefs and a repeated one were collected, after a
\* request that failed
C20_Witness ==
    /\ SearchDone
    /\ Len(result.value) = 15
    /\ Cardinality(C20_FirstSeen) > 15
    /\ Cardinality(C20_FirstSeen) < Len(schools)
    /\ \E i \in DOMAIN outcomes : outcomes[i].kind = "error"

-----------------------------------------------------------------------------
(* Properties of get_subdomains_page *)

SubdomainsDone == op = "get_subdomains_page" /\ pc = "done"

\* C21: the list get_subdomains_page returns has pairwise distinct hrefs and
\* at most 15 entries, whatever the page holds.
C21_DistinctCapped ==
    SubdomainsDone =>
        /\ \A i, j \in DOMAIN result.value : i # j => result.value[i].url # result.value[j].url
        /\ Len(result.value) <= 15

\* C22: every entry search_schools returns has a name longer than 3
\* characters that contains the query whatever the case, and a url that
\* contains ".schools.by" or begins with "/subdomains".
C22_QualifyingAnchorsOnly ==
    SearchDone =>
        \A i \in DOMAIN result.value :
            /\ Len(result.value[i].name) > 3
            /\ Contains(Lower(result.value[i].name), Lower(args.query))
            /\ \/ Contains(result.value[i].url, ".schools.by")
               \/ StartsWith(result.value[i].url, "/subdomains")

\* a request that ends in a 200 response of a JSON content type whose body
\* is not JSON
C23_Unparsable(o) ==
    /\ o.kind = "response"
    /\ o.response.status = 200
    /\ Contains(o.response.content_type, "application/json")
    /\ ~JsonLoads(o.response.text).ok

\* what the page of the i-th request of search_schools gives, nothing if the
\* request or the parsing failed
C23_Harvest(i) ==
    LET o == outcomes[i]
        anchors == IF C23_Unparsable(o) THEN <<>>
                   ELSE AnchorsOf(AllowedEnvelope(o, log[i].url))
    IN CASE i = 1 -> MainPageSchools(anchors, args.query)
         [] i = 2 -> SelectSeq(SubdomainLinks(anchors),
                               LAMBDA school : Contains(Lower(school.name), Lower(args.query)))
         [] OTHER -> TestPageSchools(anchors, args.query, test_pages[i - 2])

-----------------------------------------------------------------------------
(* Properties of the user sessions of the bot *)

\* the handler of u is one of the commands that answer with data
C24_DataHandler(u) == handlers[u].op \in DataCommands \cup {"schedule_command"}

\* C24: a user is authenticated exactly when user_sessions holds an entry of
\* the user.  A data command of a user without entry is at the reply "log in
\* first" and never at a reply with data; one that fetches or replies data has
\* an entry; after logout_command the entry is gone, so the commands are
\* refused until handle_password stores an entry again.
C24_DataOnlyWithEntry ==
    \A u \in Users :
        /\ _check_authentication(u) <=> u \in DOMAIN user_sessions
        /\ C24_DataHandler(u) /\ handlers[u].pc = "reply_login"
              => u \notin DOMAIN user_sessions
        /\ C24_DataHandler(u) /\ handlers[u].pc \in {"notify", "request", "reply", "reply_data"}
              => u \in DOMAIN user_sessions
        /\ At(u, "logout_command", "reply_logout") => ~_check_authentication(u)

\* one user has logged in and is replied the data of the profile while the
\* other, who has given a username in a login conversation and has no entry,
\* is told to log in
C24_Witness ==
    \E u, v \in Users :
        /\ At(u, "profile_command", "reply_data")
        /\ u \in DOMAIN user_sessions
        /\ At(v, "grades_command", "reply_login")
        /\ user_data[v] # None
        /\ v \notin DOMAIN user_sessions

-----------------------------------------------------------------------------
(* Properties of the requests of one call *)

\* the requests the call made itself, without those that follow a redirect
C25_Calls == SelectSeq(log, LAMBDA r : r.hop = 0)

\* the requests that carry the form data
C25_Submissions == {i \in DOMAIN log : log[i].method = "POST" /\ log[i].data # EmptyDict}

C26_OtherStatus ==
    /\ op = "authenticate" /\ pc = "done"
    /\ auth_response # NoResponse
    /\ auth_response.status \notin {200, 302, 303, 307}

\* C26: after a credential POST that ends in any other status, authenticate
\* returns a failure with this status and the first 500 characters of the body.
C26_FailureWithExcerpt ==
    C26_OtherStatus =>
        /\ result.kind = "return"
        /\ result.value.success = FALSE
        /\ result.value.status = auth_response.status
        /\ Len(result.value.response) = Min({500, Len(auth_response.text)})
        /\ result.value.response = SubSeq(auth_response.text, 1, Len(result.value.response))

\* a 502 whose page is longer than 500 characters, cut to 500
C26_Witness ==
    /\ C26_OtherStatus
    /\ auth_response.status = 502
    /\ Len(auth_response.text) > 500
    /\ Len(result.value.response) = 500

-----------------------------------------------------------------------------
(* Properties of the envelopes of _make_request *)

\* C27: a call of _make_request that sent its request returns an envelope or
\* raises SchoolsAPIError and nothing else, and with allow_errors it returns.
C27_OwnErrorOnly ==
    MakeDone =>
        /\ result.kind = "raise" => result.exc = "SchoolsAPIError"
        /\ args.allow_errors => result.kind = "return"

\* C28: a mapping that _make_request returns has the key 'html' only if it is
\* the raw markup of the response, the text of the body with its status.
C28_HtmlKeyIsRawMarkup ==
    Answered /\ result.kind = "return" /\ "html" \in DOMAIN result.value =>
        /\ "status" \in DOMAIN result.value
        /\ result.value.html = outcomes[1].response.text
        /\ result.value.status = outcomes[1].response.status

-----------------------------------------------------------------------------
(* Properties of the writes to user_sessions *)

\* the step stores the entry of u, out of the credential POST of u's
\* handle_password with a result of success, and leaves the other entries
C29_Stores(u) ==
    /\ At(u, "handle_password", "post")
    /\ handlers'[u].op = "handle_password" /\ handlers'[u].pc = "reply_ok"
    /\ DOMAIN user_sessions' = DOMAIN user_sessions \cup {u}
    /\ user_sessions'[u].auth_data.success
    /\ \A v \in DOMAIN user_sessions \ {u} : user_sessions'[v] = user_sessions[v]

\* the step is the start of u's logout_command and deletes the entry of u only
C29_Deletes(u) ==
    /\ handlers'[u].op = "logout_command"
    /\ DOMAIN user_sessions' = DOMAIN user_sessions \ {u}
    /\ \A v \in DOMAIN user_sessions' : user_sessions'[v] = user_sessions[v]

\* the handle_password of u has run its block to the end, whose last
\* statement stores the entry of u
C29_Stored(u) == handlers[u].op = "handle_password" /\ handlers[u].left = "normal"

\* C29 as stated: user_sessions changes only by a store of handle_password
\* after a success or by the deletion of logout_command, and a
\* handle_password that is in one of its except branches has stored nothing.
C29_FailedAttemptStoresNothing ==
    /\ [](\A u \in Users : At(u, "handle_password", "reply_err") => ~C29_Stored(u))
    /\ [][user_sessions' # user_sessions
              => \E u \in Users : C29_Stores(u) \/ C29_Deletes(u)]_vars

\* C29 as the code has it: user_sessions changes only when handle_password
\* stores the entry of its user after authenticate returned success, or when
\* logout_command deletes the entry of its user; the steps of a
\* handle_password whose authenticate returned a failure or raised change
\* nothing.  A handle_password can be in the second except branch after it
\* stored its entry, when the reply after the block failed: the entry stays.
C29_OnlySuccessStores ==
    /\ [](\A u \in Users :
              /\ At(u, "handle_password", "reply_fail") => ~C29_Stored(u)
              /\ C29_Stored(u) => u \in DOMAIN user_sessions)
    /\ [][user_sessions' # user_sessions
              => \E u \in Users : C29_Stores(u) \/ C29_Deletes(u)]_vars

\* the entry of one user was stored and the reply after the block failed,
\* while the other user, whose authenticate returned a failure, has no entry
C29_Witness ==
    \E u, v \in Users :
        /\ At(u, "handle_password", "reply_err") /\ handlers[u].left = "normal"
        /\ u \in DOMAIN user_sessions
        /\ At(v, "handle_password", "reply_fail")
        /\ v \notin DOMAIN user_sessions

-----------------------------------------------------------------------------
(* Properties of the login conversation *)

\* the step ends the handle_password of u
C30_PasswordEnds(u) == handlers[u].op = "handle_password" /\ handlers'[u].op = "idle"

\* the moves of the conversation of u: from END to WAITING_LOGIN for a user
\* without entry, from WAITING_LOGIN to WAITING_PASSWORD with the username
\* kept, and from both to END; the moves that no handle_password makes start
\* no authenticate call
C30_Moves(u) ==
    /\ conversation[u] = "END" /\ conversation'[u] # "END"
          => conversation'[u] = "WAITING_LOGIN" /\ u \notin DOMAIN user_sessions
    /\ conversation[u] = "END" /\ u \in DOMAIN user_sessions => conversation'[u] = "END"
    /\ conversation[u] = "WAITING_LOGIN" /\ conversation'[u] # conversation[u]
          => \/ conversation'[u] = "END"
             \/ conversation'[u] = "WAITING_PASSWORD" /\ user_data'[u] # None
    /\ conversation[u] = "WAITING_PASSWORD" /\ conversation'[u] # conversation[u]
          => conversation'[u] = "END"
    /\ conversation'[u] # conversation[u] /\ handlers[u].op # "handle_password"
          => handlers' = handlers /\ open_sessions' = open_sessions
    /\ handlers'[u].op = "handle_password" /\ handlers'[u].pc = "root"
          => handlers[u].op = "handle_password" /\ handlers[u].pc \in {"notify", "root"}

\* C30 as stated: the conversation moves as above, and every handle_password
\* ends after an authenticate call with the conversation at END.
C30_PasswordAlwaysEnds ==
    [][\A u \in Users :
           /\ C30_Moves(u)
           /\ C30_PasswordEnds(u)
                 => conversation'[u] = "END" /\ handlers[u].pc # "notify"]_vars

\* C30 as the code has it: the conversation moves as above; a handle_password
\* makes at most one authenticate call, and when it ends by a return, after
\* the result of authenticate or after the reply of an except branch, the
\* conversation is at END.  A handler whose reply raises outside its try ends
\* by the exception and the conversation stays where it was: the reply
\* "checking" of handle_password, before any authenticate call, and the reply
\* of an except branch.
C30_EndsUnlessReplyRaises ==
    [][\A u \in Users :
           /\ C30_Moves(u)
           /\ C30_PasswordEnds(u) /\ handlers[u].pc \in {"reply_fail", "reply_ok"}
                 => conversation'[u] = "END"
           /\ C30_PasswordEnds(u) /\ conversation'[u] # "END"
                 => /\ handlers[u].pc \in {"notify", "reply_err"}
                    /\ conversation'[u] = "WAITING_PASSWORD"
                    /\ user_sessions' = user_sessions]_vars

\* the handle_password of one user returned from inside its block and ended
\* the conversation; that of the other ended by an exception after its block
\* was left by one, and the conversation still waits for the password
C30_Witness ==
    \E u, v \in Users :
        /\ handlers[u] = Ended("return") /\ conversation[u] = "END"
        /\ handlers[v] = Ended("raise") /\ conversation[v] = "WAITING_PASSWORD"

-----------------------------------------------------------------------------
(* Properties of the handlers of one user *)

\* the schedule_command of u is between its authentication check and the
\* read of the entry that follows the fetch
C31_BeforeRead(u) ==
    At(u, "schedule_command", "notify") \/ At(u, "schedule_command", "request")

C32_Writes(u) ==
    /\ At(u, "handle_password", "post")
    /\ handlers'[u].op = "handle_password" /\ handlers'[u].pc = "reply_ok"

\* C32: when handle_password stores the entry of a user, user_sessions holds
\* no entry of this user: an entry is overwritten only after a logout_command
\* has deleted it.
C32_NeverOverwritesLiveEntry ==
    [][\A u \in Users : C32_Writes(u) => u \notin DOMAIN user_sessions]_vars

====
